---------------------------- MODULE Spec2Model ----------------------------
(***************************************************************************)
(* Model of recipenow: the deterministic recipe parser                     *)
(* (apps/api/services/parser.py), the evidence builders and the extract    *)
(* and normalize jobs of the worker (apps/worker/jobs.py,                  *)
(* apps/api/worker/jobs.py) and the recipe repository                      *)
(* (apps/api/repositories/recipes.py).                                     *)
(*                                                                         *)
(* A text is a sequence of characters, each character a one-character      *)
(* string (a character outside ASCII is written as its code point,         *)
(* "U+2022").  None is modelled by a value of the same shape that no       *)
(* computation of the program produces: NoneText for an absent text,       *)
(* NoneInt for an absent integer, <<>> for an absent range.                *)
(***************************************************************************)
EXTENDS Integers, Sequences, FiniteSets, TLC

(***************************************************************************)
(* Bounds of the model.                                                    *)
(***************************************************************************)
\* parse is handed every list of at most MaxLines lines of the vocabulary
MaxLines == 4
\* _parse_quantity is handed every quantity string of at most MaxQtyLen
\* characters
MaxQtyLen == 5
\* an evidence builder is handed every list of at most MaxIds cited ids
MaxIds == 3
\* at most MaxJobs extract jobs run on the database
MaxJobs == 3
\* the normalized recipe has at most MaxIngredients ingredients
MaxIngredients == 2
\* the repository is called at most MaxCalls times
MaxCalls == 3
\* the OCR service produces at most MaxOcrLines lines for the asset
MaxOcrLines == 3
\* uuid4() returns one of MaxUuid ids
MaxUuid == 4

(***************************************************************************)
(* Characters and the string operations of Python the parser uses.         *)
(***************************************************************************)
Space == {" ", "\t"}
Digit == {"0", "1", "2", "3", "4", "5", "6", "7", "8", "9"}
UpperSeq ==
    <<"A", "B", "C", "D", "E", "F", "G", "H", "I", "J", "K", "L", "M",
      "N", "O", "P", "Q", "R", "S", "T", "U", "V", "W", "X", "Y", "Z">>
LowerSeq ==
    <<"a", "b", "c", "d", "e", "f", "g", "h", "i", "j", "k", "l", "m",
      "n", "o", "p", "q", "r", "s", "t", "u", "v", "w", "x", "y", "z">>
Alpha == {UpperSeq[i] : i \in 1..26} \cup {LowerSeq[i] : i \in 1..26}

NoneText == <<"None">>
NoneInt == 0 - 1

\* str.lower() of one character
LowerChar(c) ==
    IF \E i \in 1..26 : UpperSeq[i] = c
    THEN LowerSeq[CHOOSE i \in 1..26 : UpperSeq[i] = c]
    ELSE c

\* str.lower()
Lower(s) == [i \in 1..Len(s) |-> LowerChar(s[i])]

\* the first index j >= i of s whose character is outside the class C,
\* Len(s) + 1 when there is none: the end of a greedy run [C]* started at i
RunEnd(s, i, C) ==
    CHOOSE j \in i..(Len(s) + 1) :
        /\ \A k \in i..(j - 1) : s[k] \in C
        /\ (j = Len(s) + 1 \/ s[j] \notin C)

\* the last index j of s whose character is outside the class C, 0 when none
LastOutside(s, C) ==
    CHOOSE j \in 0..Len(s) :
        /\ \A k \in (j + 1)..Len(s) : s[k] \in C
        /\ (j = 0 \/ s[j] \notin C)

\* str.strip()
Strip(s) == SubSeq(s, RunEnd(s, 1, Space), LastOutside(s, Space))

\* s[i:] of Python, for a 1-based index i
From(s, i) == SubSeq(s, i, Len(s))

\* sub in s
Contains(sub, s) ==
    \E i \in 1..(Len(s) - Len(sub) + 1) : SubSeq(s, i, i + Len(sub) - 1) = sub

\* s.startswith(p) at index i of s
MatchAt(p, s, i) ==
    /\ i + Len(p) - 1 <= Len(s)
    /\ SubSeq(s, i, i + Len(p) - 1) = p

StartsWith(p, s) == MatchAt(p, s, 1)

EndsWith(p, s) == Len(p) <= Len(s) /\ SubSeq(s, Len(s) - Len(p) + 1, Len(s)) = p

\* any(k in s for k in K)
ContainsAny(K, s) == \E k \in K : Contains(k, s)

\* s.split(): the maximal runs of non-whitespace characters, in order
RECURSIVE SplitFrom(_, _)
SplitFrom(s, i) ==
    LET b == RunEnd(s, i, Space)
    IN  IF b > Len(s)
        THEN <<>>
        ELSE LET e == CHOOSE j \in b..(Len(s) + 1) :
                          /\ \A k \in b..(j - 1) : s[k] \notin Space
                          /\ (j = Len(s) + 1 \/ s[j] \in Space)
             IN  <<SubSeq(s, b, e - 1)>> \o SplitFrom(s, e)

Split(s) == SplitFrom(s, 1)

\* s.split(sep) for a one-character separator: the pieces between separators
RECURSIVE SplitOn(_, _)
SplitOn(s, sep) ==
    IF \A k \in 1..Len(s) : s[k] # sep
    THEN <<s>>
    ELSE LET p == CHOOSE j \in 1..Len(s) :
                      s[j] = sep /\ \A k \in 1..(j - 1) : s[k] # sep
         IN  <<SubSeq(s, 1, p - 1)>> \o SplitOn(From(s, p + 1), sep)

\* re.split(r"\s+", s): as s.split(), but an empty piece stands for a
\* separator at either end, and the empty text gives one empty piece
ReSplitWs(s) ==
    IF s = <<>>
    THEN << <<>> >>
    ELSE (IF s[1] \in Space THEN << <<>> >> ELSE <<>>)
         \o Split(s)
         \o (IF s[Len(s)] \in Space THEN << <<>> >> ELSE <<>>)

\* re.split(r"[^a-zA-Z]+", s)[0]: the letters s starts with
FirstWord(s) == SubSeq(s, 1, RunEnd(s, 1, Alpha) - 1)

\* the tokens of re.split(r"[^a-zA-Z]+", s) that are not empty: the maximal
\* runs of letters of s
LetterRuns(s) ==
    { SubSeq(s, b, RunEnd(s, b, Alpha) - 1) :
        b \in { i \in 1..Len(s) :
                  s[i] \in Alpha /\ (i = 1 \/ s[i - 1] \notin Alpha) } }


\* s.rstrip(":")
RStripColon(s) == SubSeq(s, 1, LastOutside(s, {":"}))

(***************************************************************************)
(* The keyword sets of RecipeParser.                                       *)
(***************************************************************************)
TITLE_INDICATORS ==
    { <<"r", "e", "c", "i", "p", "e">>,
      <<"t", "i", "t", "l", "e">>,
      <<"n", "a", "m", "e">> }

INGREDIENT_INDICATORS ==
    { <<"i", "n", "g", "r", "e", "d", "i", "e", "n", "t">>,
      <<"i", "n", "g", "r", "e", "d", "i", "e", "n", "t", "s">>,
      <<"w", "h", "a", "t">>,
      <<"y", "o", "u">>,
      <<"n", "e", "e", "d">>,
      <<"c", "o", "m", "p", "o", "n", "e", "n", "t">>,
      <<"s", "u", "p", "p", "l", "i", "e", "s">> }

STEPS_INDICATORS ==
    { <<"i", "n", "s", "t", "r", "u", "c", "t", "i", "o", "n">>,
      <<"i", "n", "s", "t", "r", "u", "c", "t", "i", "o", "n", "s">>,
      <<"m", "e", "t", "h", "o", "d">>,
      <<"p", "r", "e", "p", "a", "r", "a", "t", "i", "o", "n">>,
      <<"p", "r", "o", "c", "e", "d", "u", "r", "e">>,
      <<"d", "i", "r", "e", "c", "t", "i", "o", "n">>,
      <<"d", "i", "r", "e", "c", "t", "i", "o", "n", "s">>,
      <<"s", "t", "e", "p", "s">>,
      <<"s", "t", "e", "p">> }

TIME_INDICATORS ==
    { <<"p", "r", "e", "p">>,
      <<"p", "r", "e", "p", "a", "r", "a", "t", "i", "o", "n">>,
      <<"c", "o", "o", "k">>,
      <<"c", "o", "o", "k", "i", "n", "g">>,
      <<"b", "a", "k", "e">>,
      <<"b", "a", "k", "i", "n", "g">>,
      <<"t", "o", "t", "a", "l">>,
      <<"t", "i", "m", "e">>,
      <<"m", "i", "n", "u", "t", "e", "s">>,
      <<"m", "i", "n", "s">>,
      <<"h", "o", "u", "r", "s">>,
      <<"h", "r", "s">> }

SERVINGS_INDICATORS ==
    { <<"s", "e", "r", "v", "e">>,
      <<"s", "e", "r", "v", "i", "n", "g">>,
      <<"s", "e", "r", "v", "i", "n", "g", "s">>,
      <<"y", "i", "e", "l", "d">>,
      <<"p", "o", "r", "t", "i", "o", "n">>,
      <<"p", "e", "o", "p", "l", "e">> }

STEP_VERBS ==
    { <<"a", "d", "d">>,
      <<"b", "a", "k", "e">>,
      <<"b", "e", "a", "t">>,
      <<"b", "r", "i", "n", "g">>,
      <<"c", "o", "m", "b", "i", "n", "e">>,
      <<"c", "o", "o", "k">>,
      <<"c", "o", "v", "e", "r">>,
      <<"d", "r", "a", "i", "n">>,
      <<"f", "o", "l", "d">>,
      <<"h", "e", "a", "t">>,
      <<"m", "i", "x">>,
      <<"p", "l", "a", "c", "e">>,
      <<"p", "o", "u", "r">>,
      <<"p", "r", "e", "h", "e", "a", "t">>,
      <<"r", "e", "d", "u", "c", "e">>,
      <<"r", "e", "m", "o", "v", "e">>,
      <<"r", "e", "t", "u", "r", "n">>,
      <<"r", "o", "l", "l">>,
      <<"s", "e", "a", "s", "o", "n">>,
      <<"s", "e", "r", "v", "e">>,
      <<"s", "i", "m", "m", "e", "r">>,
      <<"s", "t", "i", "r">>,
      <<"w", "h", "i", "s", "k">> }

UNIT_TOKENS ==
    { <<"t", "s", "p">>,
      <<"t", "b", "s", "p">>,
      <<"t", "e", "a", "s", "p", "o", "o", "n">>,
      <<"t", "e", "a", "s", "p", "o", "o", "n", "s">>,
      <<"t", "a", "b", "l", "e", "s", "p", "o", "o", "n">>,
      <<"t", "a", "b", "l", "e", "s", "p", "o", "o", "n", "s">>,
      <<"c", "u", "p">>,
      <<"c", "u", "p", "s">>,
      <<"g">>,
      <<"k", "g">>,
      <<"g", "r", "a", "m">>,
      <<"g", "r", "a", "m", "s">>,
      <<"m", "g">>,
      <<"m", "l">>,
      <<"l">>,
      <<"o", "z">>,
      <<"l", "b">>,
      <<"l", "b", "s">>,
      <<"p", "o", "u", "n", "d">>,
      <<"p", "o", "u", "n", "d", "s">>,
      <<"p", "i", "n", "c", "h">>,
      <<"c", "l", "o", "v", "e">>,
      <<"c", "l", "o", "v", "e", "s">>,
      <<"c", "a", "n">>,
      <<"c", "a", "n", "s">>,
      <<"p", "a", "c", "k", "a", "g", "e">>,
      <<"p", "a", "c", "k", "a", "g", "e", "s">>,
      <<"s", "l", "i", "c", "e">>,
      <<"s", "l", "i", "c", "e", "s">>,
      <<"b", "u", "n", "c", "h">>,
      <<"b", "u", "n", "c", "h", "e", "s">>,
      <<"s", "p", "r", "i", "g">>,
      <<"s", "p", "r", "i", "g", "s">> }

NOISE_PHRASES ==
    { <<"n", "u", "t", "r", "i", "t", "i", "o", "n">>,
      <<"c", "a", "l", "o", "r", "i", "e", "s">>,
      <<"k", "c", "a", "l">>,
      <<"p", "r", "o", "t", "e", "i", "n">>,
      <<"c", "a", "r", "b", "o", "h", "y", "d", "r", "a", "t", "e">>,
      <<"c", "a", "r", "b">>,
      <<"f", "a", "t">>,
      <<"f", "i", "b", "e", "r">>,
      <<"f", "i", "b", "r", "e">>,
      <<"s", "u", "g", "a", "r">>,
      <<"s", "o", "d", "i", "u", "m">>,
      <<"d", "i", "e", "t", "a", "r", "y">>,
      <<"h", "e", "a", "l", "t", "h", "y">>,
      <<"n", "u", "t", "-", "f", "r", "e", "e">>,
      <<"n", "u", "t", " ", "f", "r", "e", "e">>,
      <<"p", "r", "e", "g", "n", "a", "n", "c", "y">>,
      <<"e", "x", "e", "r", "c", "i", "s", "e">>,
      <<"r", "e", "c", "o", "v", "e", "r", "y">>,
      <<"r", "e", "f", "u", "e", "l">>,
      <<"r", "e", "f", "u", "e", "l", "i", "n", "g">>,
      <<"p", "e", "r", " ", "s", "e", "r", "v", "i", "n", "g">>,
      <<"p", "r", "i", "n", "t">>,
      <<"s", "h", "a", "r", "e">>,
      <<"s", "a", "v", "e">>,
      <<"s", "h", "o", "p", "p", "i", "n", "g", " ", "l", "i", "s", "t">>,
      <<"s", "h", "o", "p">>,
      <<"h", "t", "t", "p">>,
      <<"w", "w", "w", ".">>,
      <<"c", "o", "p", "y", "r", "i", "g", "h", "t">>,
      <<"U+00A9">> }

(***************************************************************************)
(* The compiled patterns of RecipeParser.__init__.  Each is modelled by    *)
(* the match Python's backtracking matcher finds first.                    *)
(***************************************************************************)
\* the class [\d\s\-/\.] of the first group of quantity_pattern
QtyClass == Digit \cup Space \cup {"-", "/", "."}

\* step_prefix_pattern.match(s): ^\s*(step\s*)?\d+[\).\:-]?\s+
step_prefix_pattern(s) ==
    LET t == Lower(s)
        a == RunEnd(t, 1, Space)
        b == IF MatchAt(<<"s", "t", "e", "p">>, t, a)
             THEN RunEnd(t, a + 4, Space)
             ELSE a
        c == RunEnd(t, b, Digit)
        d == IF c <= Len(t) /\ t[c] \in {")", ".", ":", "-"} THEN c + 1 ELSE c
    IN  c > b /\ d <= Len(t) /\ t[d] \in Space

\* bullet_pattern.match(s): ^\s*[\-\*•]\s+
bullet_pattern(s) ==
    LET a == RunEnd(s, 1, Space)
    IN  /\ a + 1 <= Len(s)
        /\ s[a] \in {"-", "*", "U+2022"}
        /\ s[a + 1] \in Space

\* quantity_pattern: ^\s*([\d\s\-/\.]+)\s*([a-z]+)?\s+(.+?)(?:\s*\(.*\))?\s*$
\* The tail of the pattern after a first group that ends before index e:
\* with a unit (group 2) when the whitespace at e is followed by letters and
\* these by whitespace and one more character ...
QtyTailUnit(s, e) ==
    LET e2 == RunEnd(s, e, Space)
        e3 == RunEnd(s, e2, Alpha)
    IN  e3 > e2 /\ e3 + 1 <= Len(s) /\ s[e3] \in Space

\* ... and without a unit when e is whitespace followed by one more character
QtyTailBare(s, e) == e + 1 <= Len(s) /\ s[e] \in Space

\* the first groups <<a, e>> (group 1 is s[a..e-1]) with which the pattern
\* matches: a is at most the end of the leading whitespace, e at most the
\* end of the leading run of QtyClass
QtySplits(s) ==
    { ae \in (1..RunEnd(s, 1, Space)) \X (2..RunEnd(s, 1, QtyClass)) :
        /\ ae[1] < ae[2]
        /\ (QtyTailUnit(s, ae[2]) \/ QtyTailBare(s, ae[2])) }

\* quantity_pattern.match(s) is not None
quantity_pattern(s) == QtySplits(s) # {}

\* the split the greedy matcher finds first: the longest leading \s*, then
\* the longest first group
QtyFirstSplit(s) ==
    CHOOSE ae \in QtySplits(s) :
        \A o \in QtySplits(s) :
            o[1] < ae[1] \/ (o[1] = ae[1] /\ o[2] <= ae[2])

\* match.groups()[0:2] of quantity_pattern.match(s): <<qty_str, unit>>, the
\* unit NoneText when group 2 did not take part in the match
quantity_groups(s) ==
    LET ae == QtyFirstSplit(s)
        e2 == RunEnd(s, ae[2], Space)
    IN  << SubSeq(s, ae[1], ae[2] - 1),
           IF QtyTailUnit(s, ae[2])
           THEN SubSeq(s, e2, RunEnd(s, e2, Alpha) - 1)
           ELSE NoneText >>

\* servings_pattern at index i of s: (?:serve|serving|yield)s?\s*(?:of\s*)?(\d+)
\* the index of the first digit of group 1, 0 when the pattern does not
\* match at i
ServingsAt(s, i) ==
    LET words == { w \in { <<"s", "e", "r", "v", "e">>,
                           <<"s", "e", "r", "v", "i", "n", "g">>,
                           <<"y", "i", "e", "l", "d">> } : MatchAt(w, s, i) }
        AfterWord(j) ==
            LET k == IF j <= Len(s) /\ s[j] = "s" THEN j + 1 ELSE j
                l == RunEnd(s, k, Space)
                m == IF MatchAt(<<"o", "f">>, s, l)
                     THEN RunEnd(s, l + 2, Space)
                     ELSE l
            IN  IF m <= Len(s) /\ s[m] \in Digit THEN m ELSE 0
        hits == { AfterWord(i + Len(w)) : w \in words } \ {0}
    IN  IF hits = {} THEN 0 ELSE CHOOSE h \in hits : TRUE

\* the decimal value of a run of digits
RECURSIVE DigitsValue(_)
DigitsValue(ds) ==
    IF ds = <<>>
    THEN 0
    ELSE 10 * DigitsValue(SubSeq(ds, 1, Len(ds) - 1))
         + (CHOOSE v \in 0..9 :
              <<"0", "1", "2", "3", "4", "5", "6", "7", "8", "9">>[v + 1]
                = ds[Len(ds)])

\* int(servings_pattern.search(s).group(1)), NoneInt when there is no match
servings_pattern(s) ==
    LET t == Lower(s)
        at == { i \in 1..Len(t) : ServingsAt(t, i) # 0 }
    IN  IF at = {}
        THEN NoneInt
        ELSE LET i == CHOOSE j \in at : \A k \in at : j <= k
                 m == ServingsAt(t, i)
             IN  DigitsValue(SubSeq(t, m, RunEnd(t, m, Digit) - 1))


(***************************************************************************)
(* Quantities.  A float is modelled by the exact fraction it stands for,   *)
(* in lowest terms with a positive denominator.  The outcome of a call is  *)
(* a record: kind "value" with the fraction n/d, kind "none" for None,     *)
(* kind "raise" with the exception that leaves the call.                   *)
(***************************************************************************)
RECURSIVE Gcd(_, _)
Gcd(a, b) == IF b = 0 THEN a ELSE Gcd(b, a % b)

Abs(a) == IF a < 0 THEN 0 - a ELSE a

RECURSIVE Pow10(_)
Pow10(k) == IF k = 0 THEN 1 ELSE 10 * Pow10(k - 1)

Value(n, d) ==
    LET g == Gcd(Abs(n), Abs(d))
        sgn == IF d < 0 THEN 0 - 1 ELSE 1
    IN  [kind |-> "value", n |-> (sgn * n) \div g, d |-> (sgn * d) \div g,
         exc |-> ""]

NoneQty == [kind |-> "none", n |-> 0, d |-> 1, exc |-> ""]

Raise(e) == [kind |-> "raise", n |-> 0, d |-> 1, exc |-> e]

\* the float with the given sign, digits before the point and digits after it
float_value(negative, whole, frac) ==
    Value((IF negative THEN 0 - 1 ELSE 1)
            * (DigitsValue(whole) * Pow10(Len(frac)) + DigitsValue(frac)),
          Pow10(Len(frac)))

\* t = [sign] digits [. digits], the first digits being t[b..p-1] and the
\* digits after the point t[p+1..q-1] (q = p without a point): the text is
\* a float when it ends there and holds a digit
float_parts(t, b, p, q) ==
    IF q = Len(t) + 1 /\ (p - b) + (IF q > p THEN q - p - 1 ELSE 0) > 0
    THEN float_value(b = 2 /\ t[1] = "-",
                     SubSeq(t, b, p - 1),
                     IF q > p THEN SubSeq(t, p + 1, q - 1) ELSE <<>>)
    ELSE Raise("ValueError")

\* the digits of t start at b and end before p
float_digits(t, b, p) ==
    IF p <= Len(t) /\ t[p] = "."
    THEN float_parts(t, b, p, RunEnd(t, p + 1, Digit))
    ELSE float_parts(t, b, p, p)

\* float of a text without surrounding whitespace
float_stripped(t) ==
    IF t # <<>> /\ t[1] \in {"-", "+"}
    THEN float_digits(t, 2, RunEnd(t, 2, Digit))
    ELSE float_digits(t, 1, RunEnd(t, 1, Digit))

\* float(s) for a text of digits, sign, point and whitespace: the value, or
\* ValueError.  (Exponents, inf, nan and digit separators need characters
\* the quantity pattern's first group never holds.)
float(s) == float_stripped(Strip(s))

\* float(num) / float(denom)
Divide(x, y) ==
    IF x.kind = "raise" THEN x
    ELSE IF y.kind = "raise" THEN y
    ELSE IF y.n = 0 THEN Raise("ZeroDivisionError")
    ELSE Value(x.n * y.d, x.d * y.n)

\* whole + fraction
Add(x, y) ==
    IF x.kind = "raise" THEN x
    ELSE IF y.kind = "raise" THEN y
    ELSE Value(x.n * y.d + y.n * x.d, x.d * y.d)

\* num, denom = nd; float(num) / float(denom)
unpack_and_divide(nd) ==
    IF Len(nd) # 2
    THEN Raise("ValueError")
    ELSE Divide(float(nd[1]), float(nd[2]))

\* num, denom = part.split("/"); float(num) / float(denom)
Fraction(part) == unpack_and_divide(SplitOn(part, "/"))

\* whole + float(num) / float(denom), unless float(parts[0]) raised
mixed_number(whole, part) ==
    IF whole.kind = "raise" THEN whole ELSE Add(whole, Fraction(part))

\* the try block with a handler for ValueError alone
ExceptValueErrorOnly(r, caught) ==
    IF r.kind = "raise" /\ r.exc = "ValueError" THEN NoneQty ELSE r

\* try: body  except (ValueError, ZeroDivisionError): return None
ExceptReturnNone(r, caught) ==
    IF r.kind = "raise" /\ r.exc \in caught THEN NoneQty ELSE r

\* the fraction branch of _parse_quantity, parts being qty_str.split()
quantity_fraction(parts) ==
    IF Len(parts) = 1
    THEN ExceptReturnNone(Fraction(parts[1]),
                          {"ValueError", "ZeroDivisionError"})
    ELSE IF Len(parts) = 2
    THEN ExceptReturnNone(mixed_number(float(parts[1]), parts[2]),
                          {"ValueError", "ZeroDivisionError"})
    ELSE NoneQty

\* _parse_quantity after float(qty_str) ended in direct
quantity_after_float(s, direct) ==
    IF direct.kind = "value"
    THEN direct
    ELSE IF direct.exc # "ValueError"
    THEN direct
    ELSE IF "/" \in {s[i] : i \in 1..Len(s)}
    THEN quantity_fraction(Split(s))
    ELSE NoneQty

\* _parse_quantity after qty_str = qty_str.strip()
parse_stripped_quantity(s) == quantity_after_float(s, float(s))

_parse_quantity(qty_str) == parse_stripped_quantity(Strip(qty_str))

(***************************************************************************)
(* The OCR line texts the model draws its inputs from.                     *)
(***************************************************************************)
\* 'Ingredients'
HeaderIngredients ==
    <<"I", "n", "g", "r", "e", "d", "i", "e", "n", "t", "s">>

\* 'Instructions'
HeaderInstructions ==
    <<"I", "n", "s", "t", "r", "u", "c", "t", "i", "o", "n", "s">>

\* '2 cups flour'
LineFlour ==
    <<"2", " ", "c", "u", "p", "s", " ", "f", "l", "o", "u", "r">>

\* '1. Mix'
LineMix ==
    <<"1", ".", " ", "M", "i", "x">>

\* 'salt and pepper to taste'
LineSalt ==
    <<"s", "a", "l", "t", " ", "a", "n", "d", " ", "p", "e", "p", "p", "e",
      "r", " ", "t", "o", " ", "t", "a", "s", "t", "e">>

\* '1. Boil water'
LineBoil ==
    <<"1", ".", " ", "B", "o", "i", "l", " ", "w", "a", "t", "e", "r">>

\* 'and add pasta.'
LinePasta ==
    <<"a", "n", "d", " ", "a", "d", "d", " ", "p", "a", "s", "t", "a", ".">>

\* 'Serves 4 people'
LineServes ==
    <<"S", "e", "r", "v", "e", "s", " ", "4", " ", "p", "e", "o", "p", "l",
      "e">>

\* 'Yield 6'
LineYield ==
    <<"Y", "i", "e", "l", "d", " ", "6">>

\* '400g spaghetti pasta'
LineSpaghetti ==
    <<"4", "0", "0", "g", " ", "s", "p", "a", "g", "h", "e", "t", "t", "i",
      " ", "p", "a", "s", "t", "a">>

\* ' 1/2 cup milk '
LineMilk ==
    <<" ", "1", "/", "2", " ", "c", "u", "p", " ", "m", "i", "l", "k", " ">>

\* 'sugar'
LineSugar ==
    <<"s", "u", "g", "a", "r">>

\* '- 2 eggs'
LineEggs ==
    <<"-", " ", "2", " ", "e", "g", "g", "s">>

\* 'add the ingredients to the pan'
LinePan ==
    <<"a", "d", "d", " ", "t", "h", "e", " ", "i", "n", "g", "r", "e", "d",
      "i", "e", "n", "t", "s", " ", "t", "o", " ", "t", "h", "e", " ", "p",
      "a", "n">>

\* the texts of which every list of at most MaxLines lines is an input
Vocabulary ==
    { HeaderIngredients, HeaderInstructions, LineFlour, LineMix, LineSalt,
      LinePasta, LineServes, LineSugar }

\* further inputs: a step with its continuation, two lines that give
\* different servings, ingredient lines with a quantity glued to its unit
\* and with surrounding whitespace, a steps header above a quantity line, a
\* bulleted line, and a sentence that holds a section keyword
Examples ==
    { <<LineBoil, LinePasta>>,
      <<LineServes, LineYield>>,
      <<HeaderIngredients, LineSpaghetti, LineMilk>>,
      <<HeaderInstructions, LineMix, LineMilk>>,
      <<LineSalt, LineEggs, LineMilk>>,
      <<LinePan, LineFlour>> }

\* every text of an input line
LineTexts ==
    Vocabulary \cup UNION { {e[k] : k \in 1..Len(e)} : e \in Examples }


(***************************************************************************)
(* The line classifier.  Each test is defined as the source computes it    *)
(* (the definitions named ..._of) and is looked up in a table for the      *)
(* texts of the input lines, so that it is computed once per text.          *)
(***************************************************************************)
\* the texts the extractors classify: stripped lines, and these lower-cased
KnownTexts ==
    {Strip(t) : t \in LineTexts} \cup {Strip(Lower(t)) : t \in LineTexts}

looks_like_header_of(text) ==
    LET lower_text == RStripColon(Strip(Lower(text)))
        tokens == ReSplitWs(lower_text)
        indicators ==
            INGREDIENT_INDICATORS \cup STEPS_INDICATORS \cup TITLE_INDICATORS
    IN  IF Len(lower_text) > 50 THEN FALSE
        ELSE IF tokens = <<>> THEN FALSE
        ELSE IF lower_text \in indicators THEN TRUE
        ELSE IF tokens[1] \in indicators /\ Len(tokens) <= 3 THEN TRUE
        ELSE IF ContainsAny(indicators, lower_text) THEN TRUE
        ELSE FALSE

is_noise_line_of(text) ==
    LET lower_text == Lower(text)
    IN  IF ContainsAny(NOISE_PHRASES, lower_text) THEN TRUE
        ELSE IF /\ Len(Split(lower_text)) <= 2
                /\ lower_text \in { <<"c", "o", "o", "k">>,
                                    <<"p", "r", "e", "p">>,
                                    <<"s", "e", "r", "v", "e">>,
                                    <<"d", "i", "e", "t", "a", "r", "y">> }
        THEN TRUE
        ELSE FALSE

looks_like_ingredient_of(text) ==
    LET lower_text == Lower(text)
    IN  IF step_prefix_pattern(lower_text) THEN FALSE
        ELSE IF bullet_pattern(lower_text) THEN TRUE
        ELSE IF quantity_pattern(lower_text) THEN TRUE
        ELSE IF LetterRuns(lower_text) \cap UNIT_TOKENS # {} THEN TRUE
        ELSE FALSE

is_step_candidate_of(text) ==
    LET lower_text == Strip(Lower(text))
    IN  IF step_prefix_pattern(lower_text) THEN TRUE
        ELSE IF bullet_pattern(lower_text) THEN TRUE
        ELSE IF FirstWord(lower_text) \in STEP_VERBS THEN TRUE
        ELSE FALSE

HeaderTable == [t \in KnownTexts |-> looks_like_header_of(t)]

NoiseTable == [t \in KnownTexts |-> is_noise_line_of(t)]

IngredientTable == [t \in KnownTexts |-> looks_like_ingredient_of(t)]

StepTable == [t \in KnownTexts |-> is_step_candidate_of(t)]

_looks_like_header(text) ==
    IF text \in KnownTexts THEN HeaderTable[text] ELSE looks_like_header_of(text)

_is_noise_line(text) ==
    IF text \in KnownTexts THEN NoiseTable[text] ELSE is_noise_line_of(text)

_looks_like_ingredient(text) ==
    IF text \in KnownTexts
    THEN IngredientTable[text]
    ELSE looks_like_ingredient_of(text)

_is_step_candidate(text) ==
    IF text \in KnownTexts THEN StepTable[text] ELSE is_step_candidate_of(text)

(***************************************************************************)
(* Records of the parser.  Line indices are 0-based, as in the source.     *)
(* A FieldStatus the source builds without a "notes" key has notes "".     *)
(***************************************************************************)
\* ocr_lines[idx]
Line(ocr_lines, idx) == ocr_lines[idx + 1]

\* the field path "title", "ingredients", "ingredients[2].original_text"
FieldPath(field, index, attr) ==
    [field |-> field, index |-> index, attr |-> attr]

SectionPath(field) == FieldPath(field, NoneInt, "")

\* the span dict the extractors build from one OCR line
SpanOf(field_path, asset_id, line, extracted_text) ==
    [field_path |-> field_path, asset_id |-> asset_id, page |-> line.page,
     bbox |-> line.bbox, ocr_confidence |-> line.confidence,
     extracted_text |-> extracted_text]

Extracted(field_path) ==
    [field_path |-> field_path, status |-> "extracted", notes |-> ""]

Missing(field_path, notes) ==
    [field_path |-> field_path, status |-> "missing", notes |-> notes]

NoTimes == [prep_min |-> NoneInt, cook_min |-> NoneInt, total_min |-> NoneInt]

EmptyRecipe ==
    [title |-> NoneText, servings |-> NoneInt, times |-> NoTimes,
     ingredients |-> <<>>, steps |-> <<>>, tags |-> <<>>]

SetMin(S) == CHOOSE i \in S : \A j \in S : i <= j

(***************************************************************************)
(* Section detection and the title.                                        *)
(***************************************************************************)
\* the body of the loop of _detect_sections for one line: the lists the
\* line's index is appended to
header_kinds_of(text) ==
    LET lower_text == Strip(Lower(text))
    IN  { kind \in {"ingredients", "steps", "title"} :
            /\ _looks_like_header(lower_text)
            /\ ContainsAny(CASE kind = "ingredients" -> INGREDIENT_INDICATORS
                             [] kind = "steps" -> STEPS_INDICATORS
                             [] kind = "title" -> TITLE_INDICATORS,
                           lower_text) }

HeaderKindsTable == [t \in LineTexts |-> header_kinds_of(t)]

header_kinds(text) ==
    IF text \in LineTexts THEN HeaderKindsTable[text] ELSE header_kinds_of(text)

_detect_sections(ocr_lines) ==
    LET indices == [k \in 1..Len(ocr_lines) |-> k - 1]
        headers(kind) ==
            SelectSeq(indices,
                      LAMBDA i : kind \in header_kinds(Line(ocr_lines, i).text))
        title_indices == headers("title")
    IN  [title_indices |->
             IF title_indices = <<>> /\ ocr_lines # <<>>
             THEN <<0>>
             ELSE title_indices,
         ingredients_indices |-> headers("ingredients"),
         steps_indices |-> headers("steps")]

\* an index taken after the title header without looking at the length of
\* the list
title_subscript_unguarded(ocr_lines, title_indices) == title_indices[1] + 1

\* the index _extract_title subscripts ocr_lines with under a title header
title_subscript(ocr_lines, title_indices) ==
    IF title_indices[1] + 1 < Len(ocr_lines)
    THEN title_indices[1] + 1
    ELSE title_indices[1]

\* <<>> for None, else <<title_text, span, status>>
_extract_title(ocr_lines, title_indices, asset_id) ==
    IF ocr_lines = <<>>
    THEN <<>>
    ELSE
    LET n == Len(ocr_lines)
        substantive ==
            { i \in 0..(n - 1) :
                /\ i < 5
                /\ Len(Strip(Line(ocr_lines, i).text)) > 3
                /\ Len(Split(Line(ocr_lines, i).text)) >= 2 }
        first ==
            IF title_indices # <<>>
            THEN Line(ocr_lines, title_subscript(ocr_lines, title_indices))
            ELSE IF substantive # {}
                 THEN Line(ocr_lines, SetMin(substantive))
                 ELSE Line(ocr_lines, 0)
        first_text == Strip(first.text)
        too_long ==
            \/ Len(first_text) > 120
            \/ /\ Contains(<<".", " ">>, first_text)
               /\ Len(Split(first_text)) > 8
        shorter ==
            { i \in 0..(n - 1) :
                /\ i < 8
                /\ Strip(Line(ocr_lines, i).text) # <<>>
                /\ ~_is_noise_line(Strip(Line(ocr_lines, i).text))
                /\ Len(Split(Strip(Line(ocr_lines, i).text))) <= 8
                /\ Len(Strip(Line(ocr_lines, i).text)) <= 80 }
        line ==
            IF too_long /\ shorter # {}
            THEN Line(ocr_lines, SetMin(shorter))
            ELSE first
        title_text ==
            IF too_long /\ shorter # {} THEN Strip(line.text) ELSE first_text
    IN  IF first_text = <<>> \/ _is_noise_line(first_text)
        THEN <<>>
        ELSE << title_text,
                SpanOf(SectionPath("title"), asset_id, line, title_text),
                Extracted(SectionPath("title")) >>

(***************************************************************************)
(* Ingredients.                                                            *)
(***************************************************************************)
\* the ingredient dict at the return of _parse_ingredient_line when the
\* quantity pattern matched with the unit group and _parse_quantity ended
\* in qty_val: 'if qty_val:' is false for None and for 0.0, and the handler
\* swallows ValueError and AttributeError
ingredient_parsed(text, unit, qty_val) ==
    [quantity |->
         IF qty_val.kind = "raise"
         THEN IF qty_val.exc \in {"ValueError", "AttributeError"}
              THEN NoneQty
              ELSE qty_val
         ELSE IF qty_val.kind = "value" /\ qty_val.n # 0 THEN qty_val
         ELSE NoneQty,
     unit |->
         IF qty_val.kind = "value" /\ qty_val.n # 0 /\ unit # NoneText
         THEN Lower(unit)
         ELSE NoneText,
     optional |->
         Contains(<<"o", "p", "t", "i", "o", "n", "a", "l">>, Lower(text)),
     original_text |-> NoneText]

\* qty_str, unit, name = match.groups(); the try block
ingredient_matched(text, groups) ==
    ingredient_parsed(text, groups[2], _parse_quantity(Strip(groups[1])))

\* the ingredient dict when the quantity pattern does not match
ingredient_unmatched(text) ==
    [quantity |-> NoneQty,
     unit |-> NoneText,
     optional |->
         Contains(<<"o", "p", "t", "i", "o", "n", "a", "l">>, Lower(text)),
     original_text |-> NoneText]

\* the ingredient dict of the text left after the leading bullets and
\* numbers are removed
ingredient_of_text(text) ==
    IF quantity_pattern(text)
    THEN ingredient_matched(text, quantity_groups(text))
    ELSE ingredient_unmatched(text)

\* re.sub(r"^[\d\.\-\*•\s]+", "", text).strip()
remove_leading(text) ==
    Strip(From(text,
               RunEnd(text, 1, Digit \cup Space \cup {".", "-", "*", "U+2022"})))

\* _parse_ingredient_line after text = text.strip()
parse_stripped_line(text) ==
    IF text = <<>> THEN <<>> ELSE << ingredient_of_text(remove_leading(text)) >>

\* <<>> for None, else <<ingredient>> without its original_text
parse_ingredient_line_of(text0) == parse_stripped_line(Strip(text0))

IngredientLineTable == [t \in KnownTexts |-> parse_ingredient_line_of(t)]

_parse_ingredient_line(text) ==
    IF text \in KnownTexts
    THEN IngredientLineTable[text]
    ELSE parse_ingredient_line_of(text)

\* ingredient_entry keeping, as original_text, the text _parse_ingredient_line
\* cleaned of its leading bullets and numbers
ingredient_entry_cleaned(ingredient, text, line, asset_id, n, idx) ==
    LET path == FieldPath("ingredients", n, "original_text")
        cleaned ==
            Strip(From(text,
                       RunEnd(text, 1,
                              Digit \cup Space \cup {".", "-", "*", "U+2022"})))
    IN  << [ingredient EXCEPT !.original_text = cleaned],
           SpanOf(path, asset_id, line, text),
           Extracted(path),
           idx >>

\* the tuple _extract_ingredients appends for an accepted line, the n-th
\* ingredient: <<ingredient, span, status, idx>>, where idx (history) is the
\* index of the line it was made from
ingredient_entry(ingredient, text, line, asset_id, n, idx) ==
    LET path == FieldPath("ingredients", n, "original_text")
    IN  << [ingredient EXCEPT !.original_text = text],
           SpanOf(path, asset_id, line, text),
           Extracted(path),
           idx >>

\* the loop of _extract_ingredients from line idx on
RECURSIVE IngredientsLoop(_, _, _, _, _, _)
IngredientsLoop(ocr_lines, idx, end_idx, asset_id, relax_filters, ingredients) ==
    IF idx >= end_idx
    THEN ingredients
    ELSE
    LET line == Line(ocr_lines, idx)
        text == Strip(line.text)
        lower_text == Lower(text)
        skip ==
            \/ text = <<>>
            \/ _looks_like_header(text)
            \/ _is_noise_line(text)
            \/ StartsWith(<<"f", "o", "r", " ">>, lower_text)
            \/ StartsWith(<<"f", "o", "r", " ", "t", "h", "e", " ">>, lower_text)
            \/ EndsWith(<<":">>, text)
            \/ /\ ContainsAny(TIME_INDICATORS, lower_text)
               /\ \E k \in 1..Len(lower_text) : lower_text[k] \in Digit
            \/ /\ ~relax_filters
               /\ (_is_step_candidate(text) \/ ~_looks_like_ingredient(text))
        parsed == _parse_ingredient_line(text)
    IN  IF skip \/ parsed = <<>>
        THEN IngredientsLoop(ocr_lines, idx + 1, end_idx, asset_id,
                             relax_filters, ingredients)
        ELSE IngredientsLoop(ocr_lines, idx + 1, end_idx, asset_id,
                             relax_filters,
                             Append(ingredients,
                                    ingredient_entry(parsed[1], text, line,
                                                     asset_id, Len(ingredients),
                                                     idx)))

\* _extract_ingredients applying the strict filters whatever relax_filters is
_extract_ingredients_strict(ocr_lines, ingredient_range, asset_id, relax_filters) ==
    IF ingredient_range = <<>>
    THEN <<>>
    ELSE IngredientsLoop(ocr_lines, ingredient_range[1], ingredient_range[2],
                         asset_id, FALSE, <<>>)

_extract_ingredients(ocr_lines, ingredient_range, asset_id, relax_filters) ==
    IF ingredient_range = <<>>
    THEN <<>>
    ELSE IngredientsLoop(ocr_lines, ingredient_range[1], ingredient_range[2],
                         asset_id, relax_filters, <<>>)

max_gap == 2

\* the second loop of _find_ingredient_range from line idx on: the end_idx
\* it leaves
RECURSIVE RangeEndLoop(_, _, _, _)
RangeEndLoop(ocr_lines, idx, end_idx, gap) ==
    IF idx >= Len(ocr_lines)
    THEN end_idx
    ELSE
    LET text == Strip(Line(ocr_lines, idx).text)
        widen == IF gap + 1 > max_gap
                 THEN end_idx
                 ELSE RangeEndLoop(ocr_lines, idx + 1, end_idx, gap + 1)
    IN  IF text = <<>> THEN widen
        ELSE IF _looks_like_header(text) \/ _is_step_candidate(text)
        THEN end_idx
        ELSE IF _is_noise_line(text) THEN widen
        ELSE IF _looks_like_ingredient(text)
        THEN RangeEndLoop(ocr_lines, idx + 1, idx + 1, 0)
        ELSE widen

\* the range of _find_ingredient_range under an explicit ingredients header
header_range_ignoring_steps(ocr_lines, ingredient_indices, steps_indices) ==
    << ingredient_indices[1] + 1, Len(ocr_lines) >>

header_range(ocr_lines, ingredient_indices, steps_indices) ==
    << ingredient_indices[1] + 1,
       IF steps_indices # <<>> THEN steps_indices[1] ELSE Len(ocr_lines) >>

\* <<>> for None, else <<start_idx, end_idx>>
_find_ingredient_range(ocr_lines, ingredient_indices, steps_indices) ==
    IF ingredient_indices # <<>>
    THEN header_range(ocr_lines, ingredient_indices, steps_indices)
    ELSE
    LET starts ==
            { idx \in 0..(Len(ocr_lines) - 1) :
                LET text == Strip(Line(ocr_lines, idx).text)
                IN  /\ text # <<>>
                    /\ ~_looks_like_header(text)
                    /\ ~_is_noise_line(text)
                    /\ _looks_like_ingredient(text) }
    IN  IF starts = {}
        THEN <<>>
        ELSE << SetMin(starts),
                RangeEndLoop(ocr_lines, SetMin(starts), SetMin(starts), 0) >>


(***************************************************************************)
(* Steps and servings.                                                     *)
(***************************************************************************)
\* None, or the index of the first line to scan for steps
_find_steps_start(ocr_lines, steps_indices, ingredient_range) ==
    IF steps_indices # <<>>
    THEN steps_indices[1] + 1
    ELSE
    LET start_idx == IF ingredient_range # <<>> THEN ingredient_range[2] ELSE 0
        found ==
            { idx \in start_idx..(Len(ocr_lines) - 1) :
                LET text == Strip(Line(ocr_lines, idx).text)
                IN  /\ text # <<>>
                    /\ ~_looks_like_header(text)
                    /\ ~_is_noise_line(text)
                    /\ _is_step_candidate(text) }
    IN  IF found = {} THEN NoneInt ELSE SetMin(found)

\* the tuple _extract_steps appends for a line that starts the n-th step:
\* <<step, span, status, lines>>, where lines (history) are the indices of
\* the lines whose text went into the step
step_entry(text, line, asset_id, n, idx) ==
    LET path == FieldPath("steps", n, "text")
    IN  << [text |-> text],
           SpanOf(path, asset_id, line, text),
           Extracted(path),
           <<idx>> >>

\* continued_step leaving the span's extracted_text as it was
continued_step_text_only(entry, text, idx) ==
    << [text |-> entry[1].text \o <<" ">> \o text],
       entry[2],
       entry[3],
       Append(entry[4], idx) >>

\* the current step after a continuation line was merged into it
continued_step(entry, text, idx) ==
    << [text |-> entry[1].text \o <<" ">> \o text],
       [entry[2] EXCEPT !.extracted_text =
           entry[2].extracted_text \o <<" ">> \o text],
       entry[3],
       Append(entry[4], idx) >>

\* the loop of _extract_steps from line idx on
RECURSIVE StepsLoop(_, _, _, _, _)
StepsLoop(ocr_lines, idx, asset_id, current_step_idx, steps) ==
    IF idx >= Len(ocr_lines)
    THEN steps
    ELSE
    LET line == Line(ocr_lines, idx)
        text == Strip(line.text)
        next(cur, acc) == StepsLoop(ocr_lines, idx + 1, asset_id, cur, acc)
        cur == steps[current_step_idx + 1]
    IN  IF text = <<>> THEN next(current_step_idx, steps)
        ELSE IF _looks_like_header(text)
        THEN IF current_step_idx = NoneInt
             THEN next(current_step_idx, steps)
             ELSE steps
        ELSE IF _is_noise_line(text) THEN next(current_step_idx, steps)
        ELSE IF ~_is_step_candidate(text)
        THEN IF current_step_idx # NoneInt
             THEN next(current_step_idx,
                       [steps EXCEPT ![current_step_idx + 1] =
                           continued_step(cur, text, idx)])
             ELSE next(current_step_idx, steps)
        ELSE next(Len(steps),
                  Append(steps,
                         step_entry(text, line, asset_id, Len(steps), idx)))

_extract_steps(ocr_lines, start_idx, asset_id) ==
    IF start_idx = NoneInt
    THEN <<>>
    ELSE StepsLoop(ocr_lines, start_idx, asset_id, NoneInt, <<>>)

\* the body of the loop of _extract_servings for one line: the servings
\* the line gives, NoneInt when the loop passes it over
servings_of(line_text) ==
    LET text == Lower(line_text)
    IN  IF ContainsAny(SERVINGS_INDICATORS, text)
        THEN servings_pattern(text)
        ELSE NoneInt

ServingsTable == [t \in LineTexts |-> servings_of(t)]

line_servings(text) ==
    IF text \in LineTexts THEN ServingsTable[text] ELSE servings_of(text)

\* the greatest element of a set of indices
SetMax(S) == CHOOSE i \in S : \A j \in S : i >= j

\* _extract_servings going on to the last matching line
_extract_servings_last(ocr_lines, asset_id) ==
    LET hits ==
            { idx \in 0..(Len(ocr_lines) - 1) :
                line_servings(Line(ocr_lines, idx).text) # NoneInt }
    IN  IF hits = {}
        THEN <<>>
        ELSE LET idx == SetMax(hits)
                 line == Line(ocr_lines, idx)
             IN  << line_servings(line.text),
                    SpanOf(SectionPath("servings"), asset_id, line,
                           Strip(line.text)),
                    Extracted(SectionPath("servings")),
                    idx >>

\* <<>> for None, else <<servings, span, status, idx>>, idx (history) the
\* index of the line the value was read from
_extract_servings(ocr_lines, asset_id) ==
    LET hits ==
            { idx \in 0..(Len(ocr_lines) - 1) :
                line_servings(Line(ocr_lines, idx).text) # NoneInt }
    IN  IF hits = {}
        THEN <<>>
        ELSE LET idx == SetMin(hits)
                 line == Line(ocr_lines, idx)
             IN  << line_servings(line.text),
                    SpanOf(SectionPath("servings"), asset_id, line,
                           Strip(line.text)),
                    Extracted(SectionPath("servings")),
                    idx >>

(***************************************************************************)
(* The orchestrator.                                                       *)
(***************************************************************************)
\* [r[k] for r in results]
Column(results, k) == [i \in 1..Len(results) |-> results[i][k]]

\* the ingredient pass whose results parse keeps: the relaxed pass when it
\* ran and found something
kept_results(strict_results, retried, fallback_results) ==
    IF retried /\ fallback_results # <<>>
    THEN fallback_results
    ELSE strict_results

\* recipe_of giving up on the other fields when no title was found
recipe_of_title_first(title_result, ingredient_results, step_results, servings_result) ==
    IF title_result = <<>>
    THEN EmptyRecipe
    ELSE [title |-> title_result[1],
          servings |-> IF servings_result # <<>>
                       THEN servings_result[1] ELSE NoneInt,
          times |-> NoTimes,
          ingredients |-> Column(ingredient_results, 1),
          steps |-> Column(step_results, 1),
          tags |-> <<>>]

\* the recipe dict parse fills from the extractors' results
recipe_of(title_result, ingredient_results, step_results, servings_result) ==
    [title |-> IF title_result # <<>> THEN title_result[1] ELSE NoneText,
     servings |-> IF servings_result # <<>> THEN servings_result[1] ELSE NoneInt,
     times |-> NoTimes,
     ingredients |-> Column(ingredient_results, 1),
     steps |-> Column(step_results, 1),
     tags |-> <<>>]

\* a spans list without the span of the servings
spans_of_sections(title_result, strict_results, fallback_results, step_results, servings_result) ==
    (IF title_result # <<>> THEN <<title_result[2]>> ELSE <<>>)
    \o Column(strict_results, 2)
    \o Column(fallback_results, 2)
    \o Column(step_results, 2)

\* the spans list parse collects, in the order of its appends
spans_of(title_result, strict_results, fallback_results, step_results, servings_result) ==
    (IF title_result # <<>> THEN <<title_result[2]>> ELSE <<>>)
    \o Column(strict_results, 2)
    \o Column(fallback_results, 2)
    \o Column(step_results, 2)
    \o (IF servings_result # <<>> THEN <<servings_result[2]>> ELSE <<>>)

\* the field_statuses list parse collects, in the order of its appends
statuses_of(title_result, strict_results, fallback_results, step_results, servings_result) ==
    (IF title_result # <<>>
     THEN <<title_result[3]>>
     ELSE <<Missing(SectionPath("title"),
                    "Could not detect title in OCR text")>>)
    \o Column(strict_results, 3)
    \o Column(fallback_results, 3)
    \o (IF strict_results = <<>> /\ fallback_results = <<>>
        THEN <<Missing(SectionPath("ingredients"),
                       "Could not detect ingredients section")>>
        ELSE <<>>)
    \o Column(step_results, 3)
    \o (IF step_results = <<>>
        THEN <<Missing(SectionPath("steps"),
                       "Could not detect steps section")>>
        ELSE <<>>)
    \o (IF servings_result # <<>>
        THEN <<servings_result[3]>>
        ELSE <<Missing(SectionPath("servings"),
                       "Servings not found in OCR text")>>)

\* the local variables of parse before it ran an extractor, with the recipe,
\* spans and field_statuses of its early return
NoLocals ==
    [recipe |-> EmptyRecipe, spans |-> <<>>, field_statuses |-> <<>>,
     sections |-> [title_indices |-> <<>>, ingredients_indices |-> <<>>,
                   steps_indices |-> <<>>],
     ingredient_range |-> <<>>, strict_results |-> <<>>,
     retried |-> FALSE, ingredient_results |-> <<>>,
     steps_start |-> NoneInt, step_results |-> <<>>,
     servings_result |-> <<>>]

\* the local variables of parse when it returns, given what the extractors
\* returned
locals_at_return(sections, title_result, ingredient_range, strict_results, fallback_results, steps_start, step_results, servings_result) ==
    [recipe |->
         recipe_of(title_result,
                   kept_results(strict_results,
                                strict_results = <<>> /\ ingredient_range # <<>>,
                                fallback_results),
                   step_results, servings_result),
     spans |->
         spans_of(title_result, strict_results, fallback_results,
                  step_results, servings_result),
     field_statuses |->
         statuses_of(title_result, strict_results, fallback_results,
                     step_results, servings_result),
     sections |-> sections,
     ingredient_range |-> ingredient_range,
     strict_results |-> strict_results,
     retried |-> strict_results = <<>> /\ ingredient_range # <<>>,
     ingredient_results |->
         kept_results(strict_results,
                      strict_results = <<>> /\ ingredient_range # <<>>,
                      fallback_results),
     steps_start |-> steps_start,
     step_results |-> step_results,
     servings_result |-> servings_result]

\* parse from the steps on: _extract_steps and _extract_servings
parse_steps(ocr_lines, asset_id, sections, title_result, ingredient_range, strict_results, fallback_results, steps_start) ==
    locals_at_return(sections, title_result, ingredient_range, strict_results,
                     fallback_results, steps_start,
                     _extract_steps(ocr_lines, steps_start, asset_id),
                     _extract_servings(ocr_lines, asset_id))

\* parse after the strict ingredient pass: the relaxed pass when the strict
\* one found nothing in a resolved range, then _find_steps_start
parse_retry(ocr_lines, asset_id, sections, title_result, ingredient_range, strict_results) ==
    parse_steps(ocr_lines, asset_id, sections, title_result, ingredient_range,
                strict_results,
                IF strict_results = <<>> /\ ingredient_range # <<>>
                THEN _extract_ingredients(ocr_lines, ingredient_range,
                                          asset_id, TRUE)
                ELSE <<>>,
                _find_steps_start(ocr_lines, sections.steps_indices,
                                  ingredient_range))

\* parse once the title and the ingredient range are known: the strict pass
parse_ingredients(ocr_lines, asset_id, sections, title_result, ingredient_range) ==
    parse_retry(ocr_lines, asset_id, sections, title_result, ingredient_range,
                _extract_ingredients(ocr_lines, ingredient_range, asset_id,
                                     FALSE))

\* parse once the sections are detected: _extract_title and
\* _find_ingredient_range
parse_sections(ocr_lines, asset_id, sections) ==
    parse_ingredients(ocr_lines, asset_id, sections,
                      _extract_title(ocr_lines, sections.title_indices,
                                     asset_id),
                      _find_ingredient_range(ocr_lines,
                                             sections.ingredients_indices,
                                             sections.steps_indices))

\* the local variables of parse when it returns; an empty input returns at
\* once
parse_locals(ocr_lines, asset_id) ==
    IF ocr_lines = <<>>
    THEN NoLocals
    ELSE parse_sections(ocr_lines, asset_id, _detect_sections(ocr_lines))

\* the dict parse returns, of its local variables
Returned(at_return) ==
    [recipe |-> at_return.recipe, spans |-> at_return.spans,
     field_statuses |-> at_return.field_statuses]

parse(ocr_lines, asset_id) == Returned(parse_locals(ocr_lines, asset_id))

(***************************************************************************)
(* The evidence builder of the extract job: the Span of a field the vision *)
(* service extracted, built from the OCR lines the service cites.  Boxes   *)
(* are [x, y, w, h]; a confidence is kept as the exact fraction            *)
(* <<sum, count>> of the mean the source computes.                         *)
(***************************************************************************)
\* min(...) and max(...) of a non-empty list of numbers
Min(s) == CHOOSE m \in {s[k] : k \in 1..Len(s)} : \A k \in 1..Len(s) : m <= s[k]

Max(s) == CHOOSE m \in {s[k] : k \in 1..Len(s)} : \A k \in 1..Len(s) : m >= s[k]

\* [b[i] for b in bboxes] and [b[i] + b[j] for b in bboxes]
Coordinate(bboxes, i) == [k \in 1..Len(bboxes) |-> bboxes[k][i]]

FarEdge(bboxes, i, j) ==
    [k \in 1..Len(bboxes) |-> bboxes[k][i] + bboxes[k][j]]

\* the box spanned by the widest and the tallest of the boxes
_union_bboxes_extents(bboxes) ==
    IF bboxes = <<>>
    THEN <<0, 0, 0, 0>>
    ELSE << Min(Coordinate(bboxes, 1)), Min(Coordinate(bboxes, 2)),
            Max(Coordinate(bboxes, 3)), Max(Coordinate(bboxes, 4)) >>

_union_bboxes(bboxes) ==
    IF bboxes = <<>>
    THEN <<0, 0, 0, 0>>
    ELSE << Min(Coordinate(bboxes, 1)),
            Min(Coordinate(bboxes, 2)),
            Max(FarEdge(bboxes, 1, 3)) - Min(Coordinate(bboxes, 1)),
            Max(FarEdge(bboxes, 2, 4)) - Min(Coordinate(bboxes, 2)) >>

\* an evidence id as the vision service gives it, a str or an int, and
\* str(eid) of it
EvidenceId(kind, repr) == [kind |-> kind, repr |-> repr]

str(eid) == eid.repr

\* the evidence_ids argument: None, or a list of ids
NoneIds == [is_none |-> TRUE, items |-> <<>>]

ListOfIds(items) == [is_none |-> FALSE, items |-> items]

\* [str(eid) for eid in evidence_ids or []]
str_ids(evidence_ids) ==
    LET given == IF evidence_ids.is_none \/ evidence_ids.items = <<>>
                 THEN <<>>
                 ELSE evidence_ids.items
    IN  [k \in 1..Len(given) |-> str(given[k])]

\* ocr_line_map[eid]: the line of that key, or the KeyError of a key the
\* dict does not have
KeyError == [raised |-> "KeyError"]

Subscript(ocr_line_map, eid) ==
    IF eid \in DOMAIN ocr_line_map THEN ocr_line_map[eid] ELSE KeyError

\* [ocr_line_map[eid] for eid in evidence_ids]
cited_lines_unfiltered(evidence_ids, ocr_line_map) ==
    [k \in 1..Len(evidence_ids) |-> Subscript(ocr_line_map, evidence_ids[k])]

\* [ocr_line_map[eid] for eid in evidence_ids if eid in ocr_line_map]
cited_lines(evidence_ids, ocr_line_map) ==
    LET known == SelectSeq(evidence_ids, LAMBDA eid : eid \in DOMAIN ocr_line_map)
    IN  [k \in 1..Len(known) |-> Subscript(ocr_line_map, known[k])]

\* sum(s)
RECURSIVE Sum(_)
Sum(s) == IF s = <<>> THEN 0 ELSE s[1] + Sum(Tail(s))

\* what a call of the builder ends in: a KeyError, None, or the span dict
Raised(exception) == [raised |-> exception, is_none |-> FALSE, span |-> <<>>]

ReturnedNone == [raised |-> "", is_none |-> TRUE, span |-> <<>>]

ReturnedSpan(span) == [raised |-> "", is_none |-> FALSE, span |-> <<span>>]

\* the span dict of the builder, of the lines its evidence resolved to
evidence_span(field_path, extracted_text, ids, lines, page, asset_id, source_method) ==
    [field_path |-> field_path,
     asset_id |-> asset_id,
     page |-> page,
     bbox |-> _union_bboxes([k \in 1..Len(lines) |-> lines[k].bbox]),
     extracted_text |-> extracted_text,
     confidence |-> <<Sum([k \in 1..Len(lines) |-> lines[k].confidence]),
                      Len(lines)>>,
     source_method |-> source_method,
     evidence |-> [ocr_line_ids |-> ids]]

\* the builder from its list of cited lines on
span_of_lines(field_path, extracted_text, ids, lines, asset_id, source_method) ==
    IF \E k \in 1..Len(lines) : lines[k] = KeyError
    THEN Raised("KeyError")
    ELSE IF lines = <<>>
    THEN ReturnedNone
    ELSE ReturnedSpan(evidence_span(field_path, extracted_text, ids, lines,
                                    lines[1].page, asset_id, source_method))

\* apps/worker/jobs.py: the lines of the table are plain dicts
_build_span_from_evidence_dict(field_path, extracted_text, evidence_ids, ocr_line_map, asset_id, source_method) ==
    span_of_lines(field_path, extracted_text, str_ids(evidence_ids),
                  cited_lines(str_ids(evidence_ids), ocr_line_map),
                  asset_id, source_method)

\* apps/api/worker/jobs.py: the lines of the table are ORM objects
_build_span_from_evidence(field_path, extracted_text, evidence_ids, ocr_line_map, asset_id, source_method) ==
    span_of_lines(field_path, extracted_text, str_ids(evidence_ids),
                  cited_lines(str_ids(evidence_ids), ocr_line_map),
                  asset_id, source_method)

(***************************************************************************)
(* The extract job of the worker (apps/worker/jobs.py).  The database      *)
(* holds the recipes by id and the SourceSpan and FieldStatus rows; a uuid *)
(* is modelled by a number for a recipe and by <<job, table, k>> for the   *)
(* k-th row a job inserts into a table, which no other insert produces.    *)
(***************************************************************************)
\* 'Pasta Carbonara'
LineCarbonara ==
    <<"P", "a", "s", "t", "a", " ", "C", "a", "r", "b", "o", "n", "a", "r",
      "a">>

\* the OCR lines the ingest job stored for the asset, as extract_job reads
\* them into plain dicts
StoredLine(id, k, text) ==
    [id |-> id, text |-> text, page |-> 0, bbox |-> <<10, 20 * k, 200, 15>>,
     confidence |-> 90 + k]

ocr_line_data ==
    << StoredLine("a", 1, HeaderIngredients),
       StoredLine("b", 2, LineSalt),
       StoredLine("c", 3, LineMix) >>

\* {d["id"]: d for d in ocr_line_data}
ocr_line_map_of(line_data) ==
    [id \in {line_data[k].id : k \in 1..Len(line_data)} |->
         line_data[CHOOSE k \in 1..Len(line_data) : line_data[k].id = id]]

\* what the vision service returns: for the title at most one item, for
\* the ingredients and the steps a list of items {text,
\* evidence_ocr_line_ids}, for the servings at most one {value,
\* evidence_ocr_line_ids, is_estimate}; no times and no servings_estimate
VisionItem(text, ids) ==
    [text |-> text,
     evidence_ocr_line_ids |->
         ListOfIds([k \in 1..Len(ids) |-> EvidenceId("str", ids[k])])]

VisionServings(value, ids, is_estimate) ==
    [value |-> value,
     evidence_ocr_line_ids |->
         ListOfIds([k \in 1..Len(ids) |-> EvidenceId("str", ids[k])]),
     is_estimate |-> is_estimate]

VisionResults ==
    { [title |-> <<VisionItem(LineCarbonara, <<"a">>)>>,
       ingredients |-> <<VisionItem(LineSalt, <<"b">>),
                         VisionItem(LineFlour, <<"b", "z">>)>>,
       steps |-> <<VisionItem(LineMix, <<"c">>)>>,
       servings |-> <<VisionServings(4, <<"a">>, FALSE)>>],
      [title |-> <<VisionItem(LineCarbonara, <<"z">>)>>,
       ingredients |-> <<VisionItem(<<>>, <<"b">>),
                         VisionItem(LineSugar, <<>>)>>,
       steps |-> <<>>,
       servings |-> <<VisionServings(2, <<"c">>, TRUE)>>],
      [title |-> <<>>, ingredients |-> <<>>, steps |-> <<>>,
       servings |-> <<>>] }

\* the items of a list the payload keeps: those with a text
WithText(items) == SelectSeq(items, LAMBDA item : item.text # <<>>)

_vision_to_recipe_payload(vision_result) ==
    [title |->
         IF vision_result.title # <<>> /\ vision_result.title[1].text # <<>>
         THEN vision_result.title[1].text
         ELSE NoneText,
     servings |->
         IF vision_result.servings # <<>>
            /\ ~vision_result.servings[1].is_estimate
         THEN vision_result.servings[1].value
         ELSE NoneInt,
     servings_estimate |->
         IF vision_result.servings # <<>>
            /\ vision_result.servings[1].is_estimate
         THEN vision_result.servings[1].value
         ELSE NoneInt,
     times |-> NoTimes,
     ingredients |->
         [k \in 1..Len(WithText(vision_result.ingredients)) |->
              [original_text |-> WithText(vision_result.ingredients)[k].text,
               name_norm |-> NoneText, quantity |-> NoneQty,
               unit |-> NoneText, optional |-> FALSE]],
     steps |->
         [k \in 1..Len(WithText(vision_result.steps)) |->
              [text |-> WithText(vision_result.steps)[k].text]],
     tags |-> <<>>]

\* mark(field_path, present, note_missing)
mark(field, present, note_missing) ==
    IF present
    THEN Extracted(SectionPath(field))
    ELSE Missing(SectionPath(field), note_missing)

_build_field_statuses(recipe_data) ==
    << mark("title", recipe_data.title \notin {NoneText, <<>>},
            "Could not detect title"),
       mark("ingredients", recipe_data.ingredients # <<>>,
            "Could not detect ingredients"),
       mark("steps", recipe_data.steps # <<>>, "Could not detect steps"),
       mark("servings", recipe_data.servings \notin {NoneInt, 0},
            "Servings not found") >>

\* str(value) of a natural number
DigitSeq == <<"0", "1", "2", "3", "4", "5", "6", "7", "8", "9">>

RECURSIVE str_int(_)
str_int(n) ==
    IF n < 10
    THEN <<DigitSeq[n + 1]>>
    ELSE str_int(n \div 10) \o <<DigitSeq[(n % 10) + 1]>>

\* the spans extract_job appends for the items of a list, from item idx on:
\* the items whose evidence resolves
RECURSIVE item_spans(_, _, _, _, _, _)
item_spans(field, attr, items, idx, ocr_line_map, asset_id) ==
    IF idx >= Len(items)
    THEN <<>>
    ELSE _build_span_from_evidence_dict(
             FieldPath(field, idx, attr), items[idx + 1].text,
             items[idx + 1].evidence_ocr_line_ids, ocr_line_map, asset_id,
             "vision-api").span
         \o item_spans(field, attr, items, idx + 1, ocr_line_map, asset_id)

\* the spans list of the vision path
vision_spans(vision_result, ocr_line_map, asset_id) ==
    (IF vision_result.title # <<>> /\ vision_result.title[1].text # <<>>
     THEN _build_span_from_evidence_dict(
              SectionPath("title"), vision_result.title[1].text,
              vision_result.title[1].evidence_ocr_line_ids, ocr_line_map,
              asset_id, "vision-api").span
     ELSE <<>>)
    \o item_spans("ingredients", "original_text", vision_result.ingredients,
                  0, ocr_line_map, asset_id)
    \o item_spans("steps", "text", vision_result.steps, 0, ocr_line_map,
                  asset_id)
    \o (IF vision_result.servings # <<>>
        THEN _build_span_from_evidence_dict(
                 SectionPath("servings"),
                 str_int(vision_result.servings[1].value),
                 vision_result.servings[1].evidence_ocr_line_ids,
                 ocr_line_map, asset_id, "vision-api").span
        ELSE <<>>)

\* what phase 2 leaves for phase 3 when the vision service answered
vision_extraction(vision_result, line_data, asset_id) ==
    [recipe_data |-> _vision_to_recipe_payload(vision_result),
     spans |-> vision_spans(vision_result, ocr_line_map_of(line_data),
                            asset_id),
     field_statuses |->
         _build_field_statuses(_vision_to_recipe_payload(vision_result))]

\* span["source_method"] = "ocr" on a span of the parser
ocr_span(span) ==
    [field_path |-> span.field_path, asset_id |-> span.asset_id,
     page |-> span.page, bbox |-> span.bbox,
     ocr_confidence |-> span.ocr_confidence,
     extracted_text |-> span.extracted_text, source_method |-> "ocr"]

\* what phase 2 leaves for phase 3 when the vision service failed, of the
\* result of the parser
fallback_extraction(parse_result) ==
    [recipe_data |-> parse_result.recipe,
     spans |-> [k \in 1..Len(parse_result.spans) |->
                    ocr_span(parse_result.spans[k])],
     field_statuses |-> parse_result.field_statuses]

\* the except branch of phase 2: the parser on the OCR lines
parser_extraction(line_data, asset_id) ==
    fallback_extraction(
        parse([k \in 1..Len(line_data) |->
                   [page |-> line_data[k].page, text |-> line_data[k].text,
                    bbox |-> line_data[k].bbox,
                    confidence |-> line_data[k].confidence]],
              asset_id))

\* the Recipe row
Recipe(user_id, title, servings, ingredients, steps, tags, status) ==
    [user_id |-> user_id, title |-> title, servings |-> servings,
     ingredients |-> ingredients, steps |-> steps, tags |-> tags,
     nutrition |-> <<>>, status |-> status, updated_at |-> 0,
     deleted_at |-> NoneInt]

\* the SourceSpan row extract_job adds for a span
SourceSpan(id, recipe_id, span) ==
    [id |-> id, recipe_id |-> recipe_id, field_path |-> span.field_path,
     asset_id |-> span.asset_id, page |-> span.page, bbox |-> span.bbox,
     ocr_confidence |->
         IF "confidence" \in DOMAIN span
         THEN span.confidence
         ELSE <<span.ocr_confidence, 1>>,
     extracted_text |-> span.extracted_text,
     source_method |-> span.source_method,
     evidence |-> IF "evidence" \in DOMAIN span THEN <<span.evidence>> ELSE <<>>]

\* the FieldStatus row extract_job adds for a status
FieldStatus(id, recipe_id, status) ==
    [id |-> id, recipe_id |-> recipe_id, field_path |-> status.field_path,
     status |-> status.status, notes |-> status.notes]

\* the rows of a table after a job that added its rows to those it found
merged_rows(rows, recipe_id, added) == rows \cup added

\* the rows of a table after extract_job deleted the rows of the recipe and
\* added its own
replaced_rows(rows, recipe_id, added) ==
    {row \in rows : row.recipe_id # recipe_id} \cup added

\* the recipe row extract_job writes: a new draft of the asset's user when
\* it found no recipe, else the recipe with its fields overwritten
extracted_recipe(recipes, recipe_id, asset_user_id, recipe_data) ==
    IF recipe_id \in DOMAIN recipes
    THEN [recipes[recipe_id] EXCEPT
              !.title = recipe_data.title,
              !.servings = recipe_data.servings,
              !.ingredients = recipe_data.ingredients,
              !.steps = recipe_data.steps,
              !.tags = recipe_data.tags]
    ELSE Recipe(asset_user_id, recipe_data.title, recipe_data.servings,
                recipe_data.ingredients, recipe_data.steps, recipe_data.tags,
                "draft")

\* the database after phase 3 of job j committed, for the recipe id it
\* writes to
saved_db(database, j, id, asset_user_id, extraction) ==
    [recipes |->
         [r \in DOMAIN database.recipes \cup {id} |->
              IF r = id
              THEN extracted_recipe(database.recipes, id, asset_user_id,
                                    extraction.recipe_data)
              ELSE database.recipes[r]],
     source_spans |->
         replaced_rows(database.source_spans, id,
                       { SourceSpan(<<j, "span", k>>, id, extraction.spans[k]) :
                           k \in 1..Len(extraction.spans) }),
     field_statuses |->
         replaced_rows(database.field_statuses, id,
                       { FieldStatus(<<j, "status", k>>, id,
                                     extraction.field_statuses[k]) :
                           k \in 1..Len(extraction.field_statuses) })]

(***************************************************************************)
(* The normalize job of the worker (apps/worker/jobs.py).                  *)
(***************************************************************************)
\* re.sub(r"^[\d\s\-/\.]*\s*([a-z]*)\s+", "", text, flags=re.IGNORECASE):
\* the leading run of the class, the letters after it and the whitespace
\* after these; when the letters are not followed by whitespace the match
\* ends with the last whitespace of the leading run, if it has one
remove_quantity_and_unit(text) ==
    IF /\ RunEnd(text, RunEnd(text, 1, QtyClass), Alpha) <= Len(text)
       /\ text[RunEnd(text, RunEnd(text, 1, QtyClass), Alpha)] \in Space
    THEN From(text,
              RunEnd(text, RunEnd(text, RunEnd(text, 1, QtyClass), Alpha),
                     Space))
    ELSE IF \E j \in 1..(RunEnd(text, 1, QtyClass) - 1) : text[j] \in Space
    THEN From(text,
              1 + CHOOSE j \in 1..(RunEnd(text, 1, QtyClass) - 1) :
                      /\ text[j] \in Space
                      /\ \A k \in (j + 1)..(RunEnd(text, 1, QtyClass) - 1) :
                             text[k] \notin Space)
    ELSE text

\* re.sub(r"\s*\(.*?\)\s*", " ", text) from index i on: a parenthesis with
\* the whitespace around it becomes one space
RECURSIVE sub_parentheses(_, _)
sub_parentheses(text, i) ==
    IF i > Len(text)
    THEN <<>>
    ELSE IF /\ RunEnd(text, i, Space) <= Len(text)
            /\ text[RunEnd(text, i, Space)] = "("
            /\ \E j \in (RunEnd(text, i, Space) + 1)..Len(text) : text[j] = ")"
    THEN <<" ">>
         \o sub_parentheses(
                text,
                RunEnd(text,
                       1 + CHOOSE j \in (RunEnd(text, i, Space) + 1)..Len(text) :
                               /\ text[j] = ")"
                               /\ \A k \in (RunEnd(text, i, Space) + 1)..(j - 1) :
                                      text[k] # ")",
                       Space))
    ELSE <<text[i]>> \o sub_parentheses(text, i + 1)

\* re.sub(r"\s*,.*$", "", text): the text before the first comma, without
\* the whitespace that ends it
remove_after_comma(text) ==
    IF \A j \in 1..Len(text) : text[j] # ","
    THEN text
    ELSE SubSeq(text, 1,
                LastOutside(
                    SubSeq(text, 1,
                           (CHOOSE j \in 1..Len(text) :
                                /\ text[j] = ","
                                /\ \A k \in 1..(j - 1) : text[k] # ",") - 1),
                    Space))

\* the alternatives of the descriptor pattern
DESCRIPTORS ==
    { <<"o", "p", "t", "i", "o", "n", "a", "l">>,
      <<"t", "o", " ", "t", "a", "s", "t", "e">>,
      <<"i", "f", " ", "d", "e", "s", "i", "r", "e", "d">>,
      <<"f", "r", "e", "s", "h">>,
      <<"d", "r", "i", "e", "d">>,
      <<"g", "r", "o", "u", "n", "d">>,
      <<"p", "o", "w", "d", "e", "r", "e", "d">> }

\* re.sub(r"\s*(optional|to taste|...)\s*", " ", text, flags=re.IGNORECASE)
\* from index i on, lower the lower-cased text: a descriptor with the
\* whitespace around it becomes one space
RECURSIVE sub_descriptors(_, _, _)
sub_descriptors(text, lower, i) ==
    IF i > Len(text)
    THEN <<>>
    ELSE IF \E d \in DESCRIPTORS : MatchAt(d, lower, RunEnd(text, i, Space))
    THEN <<" ">>
         \o sub_descriptors(
                text, lower,
                RunEnd(text,
                       RunEnd(text, i, Space)
                       + Len(CHOOSE d \in DESCRIPTORS :
                                 MatchAt(d, lower, RunEnd(text, i, Space))),
                       Space))
    ELSE <<text[i]>> \o sub_descriptors(text, lower, i + 1)

\* the plurals the job makes singular
ES_SINGULARS ==
    { <<"t", "o", "m", "a", "t", "o">>, <<"p", "o", "t", "a", "t", "o">>,
      <<"o", "n", "i", "o", "n">>, <<"c", "a", "r", "r", "o", "t">> }

S_SINGULARS ==
    { <<"e", "g", "g">>, <<"c", "u", "p">>,
      <<"t", "a", "b", "l", "e", "s", "p", "o", "o", "n">>,
      <<"t", "e", "a", "s", "p", "o", "o", "n">>,
      <<"o", "u", "n", "c", "e">>, <<"p", "o", "u", "n", "d">> }

\* the if/elif that singularizes the stripped text
singularize(text) ==
    IF EndsWith(<<"e", "s">>, text)
    THEN IF SubSeq(text, 1, Len(text) - 2) \in ES_SINGULARS
         THEN SubSeq(text, 1, Len(text) - 2)
         ELSE text
    ELSE IF EndsWith(<<"s">>, text) /\ ~EndsWith(<<"s", "s">>, text)
    THEN IF SubSeq(text, 1, Len(text) - 1) \in S_SINGULARS
         THEN SubSeq(text, 1, Len(text) - 1)
         ELSE text
    ELSE text

\* _extract_ingredient_name from the descriptor pattern on
name_of_described(text) ==
    IF Strip(sub_descriptors(text, Lower(text), 1)) = <<>>
    THEN NoneText
    ELSE Lower(singularize(Strip(sub_descriptors(text, Lower(text), 1))))

\* NoneText for None
_extract_ingredient_name(original_text) ==
    IF original_text \in {NoneText, <<>>}
    THEN NoneText
    ELSE name_of_described(
             remove_after_comma(
                 sub_parentheses(
                     remove_quantity_and_unit(Strip(original_text)), 1)))

\* ingredient.get(key): None for a key the dict does not have
Get(ingredient, key) ==
    IF key \in DOMAIN ingredient THEN ingredient[key] ELSE NoneText

\* ingredient["name_norm"] = name_norm
with_name_norm(ingredient, name_norm) ==
    [key \in DOMAIN ingredient \cup {"name_norm"} |->
         IF key = "name_norm" THEN name_norm ELSE ingredient[key]]

\* a loop body that writes the name over the text of the ingredient as well
normalized_renamed(ingredient) ==
    IF Get(ingredient, "name_norm") \in {NoneText, <<>>}
       /\ _extract_ingredient_name(Get(ingredient, "original_text")) # NoneText
    THEN [key \in DOMAIN ingredient \cup {"name_norm"} |->
              IF key \in {"name_norm", "original_text"}
              THEN _extract_ingredient_name(Get(ingredient, "original_text"))
              ELSE ingredient[key]]
    ELSE ingredient

\* the body of the loop of normalize_job for one ingredient
normalized(ingredient) ==
    IF Get(ingredient, "name_norm") \in {NoneText, <<>>}
       /\ _extract_ingredient_name(Get(ingredient, "original_text")) # NoneText
    THEN with_name_norm(
             ingredient,
             _extract_ingredient_name(Get(ingredient, "original_text")))
    ELSE ingredient

\* the ingredients of the recipe and normalized_count after the loop
normalized_ingredients(ingredients) ==
    [k \in 1..Len(ingredients) |-> normalized(ingredients[k])]

normalized_count(ingredients) ==
    Cardinality({ k \in 1..Len(ingredients) :
                    normalized(ingredients[k]) # ingredients[k] })

(***************************************************************************)
(* The recipe repository (apps/api/repositories/recipes.py).  An operation *)
(* is given the recipes table and returns the table after its commit with  *)
(* what it returned: row is <<>> for None, else the one recipe returned.   *)
(***************************************************************************)
\* a query that looks the recipe up by its id alone
get_by_id_any_user(recipes, user_id, recipe_id) ==
    IF recipe_id \in DOMAIN recipes THEN <<recipe_id>> ELSE <<>>

\* the id of the row get_by_id returns, <<>> for None
get_by_id(recipes, user_id, recipe_id) ==
    IF recipe_id \in DOMAIN recipes /\ recipes[recipe_id].user_id = user_id
    THEN <<recipe_id>>
    ELSE <<>>

\* the table with one row replaced
with_row(recipes, recipe_id, recipe) ==
    [r \in DOMAIN recipes \cup {recipe_id} |->
         IF r = recipe_id THEN recipe ELSE recipes[r]]

\* what a repository operation leaves and returns
NotFound(recipes, returned) ==
    [recipes |-> recipes, returned |-> returned, row |-> <<>>]

Committed(recipes, recipe_id, recipe, returned) ==
    [recipes |-> with_row(recipes, recipe_id, recipe), returned |-> returned,
     row |-> <<recipe>>]

\* create, for the id the database gives the new row
create(recipes, new_id, user_id, title, ingredients, steps) ==
    Committed(recipes, new_id,
              Recipe(user_id, title, NoneInt, ingredients, steps, <<>>,
                     "draft"),
              "Recipe")

allowed_fields ==
    {"title", "servings", "ingredients", "steps", "tags", "nutrition",
     "status"}

\* update with the keyword arguments kwargs at time now
update(recipes, user_id, recipe_id, kwargs, now) ==
    IF get_by_id(recipes, user_id, recipe_id) = <<>>
    THEN NotFound(recipes, "None")
    ELSE Committed(
             recipes, recipe_id,
             [key \in DOMAIN recipes[recipe_id] |->
                  IF key = "updated_at"
                  THEN now
                  ELSE IF key \in DOMAIN kwargs \cap allowed_fields
                  THEN kwargs[key]
                  ELSE recipes[recipe_id][key]],
             "Recipe")

\* delete at time now
delete(recipes, user_id, recipe_id, now) ==
    IF get_by_id(recipes, user_id, recipe_id) = <<>>
    THEN NotFound(recipes, "False")
    ELSE [recipes |->
              with_row(recipes, recipe_id,
                       [recipes[recipe_id] EXCEPT !.deleted_at = now]),
          returned |-> "True", row |-> <<>>]

\* a validation that does not look at the steps
verifiable_without_steps(recipe) ==
    /\ recipe.title \notin {NoneText, <<>>}
    /\ Strip(recipe.title) # <<>>
    /\ \E k \in 1..Len(recipe.ingredients) :
           Get(recipe.ingredients[k], "original_text") \notin {NoneText, <<>>}

\* the validation of verify: title, >= 1 ingredient, >= 1 step
verifiable(recipe) ==
    /\ recipe.title \notin {NoneText, <<>>}
    /\ Strip(recipe.title) # <<>>
    /\ \E k \in 1..Len(recipe.ingredients) :
           Get(recipe.ingredients[k], "original_text") \notin {NoneText, <<>>}
    /\ \E k \in 1..Len(recipe.steps) :
           Get(recipe.steps[k], "text") \notin {NoneText, <<>>}

\* verify at time now
verify(recipes, user_id, recipe_id, now) ==
    IF get_by_id(recipes, user_id, recipe_id) = <<>>
    THEN NotFound(recipes, "None")
    ELSE IF ~verifiable(recipes[recipe_id])
    THEN NotFound(recipes, "None")
    ELSE Committed(recipes, recipe_id,
                   [recipes[recipe_id] EXCEPT
                        !.status = "verified", !.updated_at = now],
                   "Recipe")

\* what get_by_id returns to its caller
fetched(recipes, user_id, recipe_id) ==
    IF get_by_id(recipes, user_id, recipe_id) = <<>>
    THEN NotFound(recipes, "None")
    ELSE [recipes |-> recipes, returned |-> "Recipe",
          row |-> <<recipes[recipe_id]>>]

(***************************************************************************)
(* The exceptions of parse.  A subscript of a list raises IndexError       *)
(* outside -len..len-1, and an exception _parse_quantity lets through      *)
(* passes the handler of _parse_ingredient_line unless it is a ValueError  *)
(* or an AttributeError; parse itself has no handler.                      *)
(***************************************************************************)
\* ocr_lines[idx] raises
subscript_raises(ocr_lines, idx) ==
    idx >= Len(ocr_lines) \/ idx < 0 - Len(ocr_lines)

\* the subscripts of _extract_title and of the loop of _extract_ingredients
\* over range(start_idx, end_idx): "IndexError" when one raises, else ""
subscripts_raised(ocr_lines, title_indices, ingredient_range) ==
    IF /\ title_indices # <<>>
       /\ subscript_raises(ocr_lines, title_subscript(ocr_lines, title_indices))
    THEN "IndexError"
    ELSE IF /\ ingredient_range # <<>>
            /\ \E idx \in ingredient_range[1]..(ingredient_range[2] - 1) :
                   subscript_raises(ocr_lines, idx)
    THEN "IndexError"
    ELSE ""

\* the exception that left _parse_ingredient_line in one of the passes over
\* the ingredient range, "" when none did
escaped(ingredient_results) ==
    IF \E k \in 1..Len(ingredient_results) :
           ingredient_results[k][1].quantity.kind = "raise"
    THEN ingredient_results[
             CHOOSE k \in 1..Len(ingredient_results) :
                 /\ ingredient_results[k][1].quantity.kind = "raise"
                 /\ \A j \in 1..(k - 1) :
                        ingredient_results[j][1].quantity.kind # "raise"
         ][1].quantity.exc
    ELSE ""

\* how the call ended once the subscripts are known not to raise
parse_returned(at_return) ==
    [raised |->
         IF escaped(at_return.strict_results) # ""
         THEN escaped(at_return.strict_results)
         ELSE escaped(at_return.ingredient_results),
     locals |-> at_return]

\* how the call parse(ocr_lines, asset_id) ended, given the sections: the
\* exception it raised, "" when it returned, and its local variables then
parse_outcome_in(ocr_lines, asset_id, sections) ==
    IF subscripts_raised(ocr_lines, sections.title_indices,
                         _find_ingredient_range(ocr_lines,
                                                sections.ingredients_indices,
                                                sections.steps_indices)) # ""
    THEN [raised |-> "IndexError", locals |-> NoLocals]
    ELSE parse_returned(parse_sections(ocr_lines, asset_id, sections))

parse_outcome(ocr_lines, asset_id) ==
    IF ocr_lines = <<>>
    THEN [raised |-> "", locals |-> NoLocals]
    ELSE parse_outcome_in(ocr_lines, asset_id, _detect_sections(ocr_lines))

\* the attributes __init__ gives a parser: the compiled patterns
RecipeParser ==
    [quantity_pattern |-> "^\\s*([\\d\\s\\-/\\.]+)\\s*([a-z]+)?\\s+(.+?)(?:\\s*\\(.*\\))?\\s*$",
     time_pattern |-> "(\\d+)\\s*(minute|min|hour|hr|second|sec)",
     servings_pattern |-> "(?:serve|serving|yield)s?\\s*(?:of\\s*)?(\\d+)",
     step_prefix_pattern |-> "^\\s*(step\\s*)?\\d+[\\).\\:-]?\\s+",
     bullet_pattern |-> "^\\s*[\\-\\*U+2022]\\s+"]

\* a call that takes the lines it parsed off the list it was given
arguments_consumed(self, ocr_lines) ==
    [self |-> self, ocr_lines |-> <<>>]

\* the parser object and the list after parse returned: parse assigns to no
\* attribute of self, and neither it nor a helper writes to the list or to a
\* line of it
arguments_after_parse(self, ocr_lines) ==
    [self |-> self, ocr_lines |-> ocr_lines]

(***************************************************************************)
(* The OCR lines between the ingest job and the extract job                *)
(* (apps/worker/jobs.py).  A uuid is a number; the database orders uuids   *)
(* as numbers.                                                             *)
(***************************************************************************)
\* the OCRLine rows ingest_job adds for the lines of the OCR service, ids[k]
\* the uuid4() of the k-th line
ingested_rows(ocr_lines_data, ids, asset_id) ==
    { [id |-> ids[k], asset_id |-> asset_id,
       page |-> ocr_lines_data[k].page, text |-> ocr_lines_data[k].text,
       bbox |-> ocr_lines_data[k].bbox,
       confidence |-> ocr_lines_data[k].confidence] :
        k \in 1..Len(ocr_lines_data) }

\* the row a query ordered by (page, id) returns first
first_by_page_and_id(rows) ==
    CHOOSE row \in rows :
        \A other \in rows :
            \/ row.page < other.page
            \/ row.page = other.page /\ row.id <= other.id

\* query.order_by(OCRLine.page, OCRLine.id).all()
RECURSIVE ordered_by_page_and_id(_)
ordered_by_page_and_id(rows) ==
    IF rows = {}
    THEN <<>>
    ELSE <<first_by_page_and_id(rows)>>
         \o ordered_by_page_and_id(rows \ {first_by_page_and_id(rows)})

\* the plain dicts extract_job builds of the rows it read
line_dicts(ocr_lines) ==
    [k \in 1..Len(ocr_lines) |->
         [id |-> str_int(ocr_lines[k].id), text |-> ocr_lines[k].text,
          page |-> ocr_lines[k].page, bbox |-> ocr_lines[k].bbox,
          confidence |-> ocr_lines[k].confidence]]

\* phase 1 of extract_job: the OCR lines of the asset as plain dicts
read_ocr_line_data(table, asset_id) ==
    line_dicts(ordered_by_page_and_id(
                   {row \in table : row.asset_id = asset_id}))

\* the parser_lines of the except branch of phase 2
parser_lines_of(line_data) ==
    [k \in 1..Len(line_data) |->
         [page |-> line_data[k].page, text |-> line_data[k].text,
          bbox |-> line_data[k].bbox,
          confidence |-> line_data[k].confidence]]

(***************************************************************************)
(* The delete-span endpoint (apps/api/routers/recipes.py) and the span     *)
(* repository (apps/api/repositories/spans.py).                            *)
(***************************************************************************)
\* SourceSpanRepository.get_by_id: the rows with the id, none for None
span_by_id(source_spans, span_id) ==
    { row \in source_spans : row.id = span_id }

\* SourceSpanRepository.delete: the table after it and what it returned
delete_by_id(source_spans, span_id) ==
    [source_spans |-> source_spans \ span_by_id(source_spans, span_id),
     deleted |-> span_by_id(source_spans, span_id) # {}]

\* delete_span(recipe_id, span_id, user_id): the table after the request and
\* the HTTP status of the response
delete_span(database, recipe_id, span_id, user_id) ==
    IF user_id = NoneInt
    THEN [source_spans |-> database.source_spans, status_code |-> 400]
    ELSE IF get_by_id(database.recipes, user_id, recipe_id) = <<>>
    THEN [source_spans |-> database.source_spans, status_code |-> 404]
    ELSE [source_spans |->
              delete_by_id(database.source_spans, span_id).source_spans,
          status_code |->
              IF delete_by_id(database.source_spans, span_id).deleted
              THEN 200
              ELSE 404]

(***************************************************************************)
(* The state machines.  Spec: two calls of parse on one list of OCR lines. *)
(* SpecQuantity: one call of _parse_quantity on a quantity string.         *)
(* SpecEvidence: one call of an evidence builder.  SpecExtract: extract    *)
(* jobs of the worker on one database.  SpecNormalize: one normalize job.  *)
(* SpecRepository: calls of the recipe repository by two users.            *)
(* SpecIngest: one ingest job and the extract job after it.  SpecSpans:    *)
(* requests to the delete-span endpoint.                                   *)
(***************************************************************************)
VARIABLES
    pc,          \* "ready" before the call, "done" after it, "again" after
                 \* a second call of parse
    lines,       \* the ocr_lines argument of parse
    asset,       \* the asset_id argument of parse
    result,      \* the dict parse returned
    locals,      \* history: the local variables of parse at its return
    qty_str,     \* the argument of _parse_quantity
    qty_result,  \* the outcome of _parse_quantity
    ev_call,     \* the arguments of the evidence builder, and which builder
    ev_result,   \* what the call of the evidence builder ended in
    raised,      \* the exception the first call of parse raised, "" for none
    parser,      \* the RecipeParser object parse is called on
    result_again,\* the dict the second call of parse returned
    db,          \* the database: recipes by id, SourceSpan and FieldStatus rows
    jobs,        \* the extract jobs by number: where each is, what it holds
    call,        \* the last call of the repository, of the normalize job or
                 \* of the delete-span endpoint
    ocr_result,  \* the lines the OCR service produced in the ingest job
    ocr_table    \* the OCRLine rows of the database

parser_vars == <<lines, asset, result, locals, raised, parser, result_again>>

quantity_vars == <<qty_str, qty_result>>

evidence_vars == <<ev_call, ev_result>>

database_vars == <<db, jobs, call>>

ingest_vars == <<ocr_result, ocr_table>>

vars ==
    <<pc, parser_vars, quantity_vars, evidence_vars, database_vars,
      ingest_vars>>

\* the sequences over S of length at most n
SeqsUpTo(S, n) == UNION { [1..k -> S] : k \in 0..n }

\* the OCR line the OCR service produces for the k-th text of a page: boxes
\* run down the page, confidences are percentages
OCRLineData(k, text) ==
    [page |-> 0, text |-> text, bbox |-> <<10, 20 * k, 200, 15>>,
     confidence |-> 90 + k]

\* the result variable before parse returned
NoResult == Returned(NoLocals)

QtyAlphabet == {"0", "1", "2", "3", "/", " ", ".", "-"}

\* the variables of a state machine that is not running
ParserIdle ==
    /\ lines = <<>>
    /\ asset = "asset-1"
    /\ result = NoResult
    /\ locals = NoLocals
    /\ raised = ""
    /\ parser = RecipeParser
    /\ result_again = NoResult

QuantityIdle ==
    /\ qty_str = <<>>
    /\ qty_result = NoneQty

NoEvidenceCall ==
    [builder |-> "", field_path |-> SectionPath("title"),
     extracted_text |-> <<>>, evidence_ids |-> NoneIds,
     ocr_line_map |-> <<>>, asset_id |-> "asset-1"]

EvidenceIdle ==
    /\ ev_call = NoEvidenceCall
    /\ ev_result = ReturnedNone

\* the database before anything was stored, no job and no call
EmptyDb == [recipes |-> <<>>, source_spans |-> {}, field_statuses |-> {}]

NoCall ==
    [op |-> "", user_id |-> 0, recipe_id |-> 0, returned |-> "",
     row |-> <<>>, clock |-> 0]

IngestIdle ==
    /\ ocr_result = <<>>
    /\ ocr_table = {}

DatabaseIdle ==
    /\ db = EmptyDb
    /\ jobs = <<>>
    /\ call = NoCall

Init ==
    /\ pc = "ready"
    /\ IngestIdle
    /\ \E texts \in SeqsUpTo(Vocabulary, MaxLines) \cup Examples :
           lines = [k \in 1..Len(texts) |-> OCRLineData(k, texts[k])]
    /\ asset = "asset-1"
    /\ result = NoResult
    /\ locals = NoLocals
    /\ raised = ""
    /\ parser = RecipeParser
    /\ result_again = NoResult
    /\ QuantityIdle
    /\ EvidenceIdle
    /\ DatabaseIdle

\* result = parser.parse(lines, asset)
Parse ==
    /\ pc = "ready"
    /\ pc' = "done"
    /\ \E outcome \in {parse_outcome(lines, asset)} :
           /\ raised' = outcome.raised
           /\ locals' = outcome.locals
           /\ result' = IF outcome.raised = ""
                         THEN Returned(outcome.locals)
                         ELSE NoResult
    /\ parser' = arguments_after_parse(parser, lines).self
    /\ lines' = arguments_after_parse(parser, lines).ocr_lines
    /\ UNCHANGED <<ingest_vars, asset, result_again, quantity_vars,
                   evidence_vars, database_vars>>

\* result_again = parser.parse(lines, asset), once the first call returned
ParseAgain ==
    /\ pc = "done"
    /\ raised = ""
    /\ pc' = "again"
    /\ \E outcome \in {parse_outcome(lines, asset)} :
           result_again' = IF outcome.raised = ""
                           THEN Returned(outcome.locals)
                           ELSE NoResult
    /\ parser' = arguments_after_parse(parser, lines).self
    /\ lines' = arguments_after_parse(parser, lines).ocr_lines
    /\ UNCHANGED <<ingest_vars, asset, result, locals, raised, quantity_vars,
                   evidence_vars, database_vars>>

Next == Parse \/ ParseAgain

Spec == Init /\ [][Next]_vars

InitQuantity ==
    /\ pc = "ready"
    /\ IngestIdle
    /\ ParserIdle
    /\ qty_str \in SeqsUpTo(QtyAlphabet, MaxQtyLen)
    /\ qty_result = NoneQty
    /\ EvidenceIdle
    /\ DatabaseIdle

\* qty_result = RecipeParser()._parse_quantity(qty_str)
ParseQuantity ==
    /\ pc = "ready"
    /\ pc' = "done"
    /\ qty_result' = _parse_quantity(qty_str)
    /\ UNCHANGED <<ingest_vars, parser_vars, qty_str, evidence_vars,
                   database_vars>>

NextQuantity == ParseQuantity

SpecQuantity == InitQuantity /\ [][NextQuantity]_vars

\* the OCR lines a lookup table can hold: boxes that overlap, nest and lie
\* apart, on two pages
EvidenceLines ==
    { [text |-> LineSalt, page |-> 0, bbox |-> <<10, 20, 200, 15>>,
       confidence |-> 90],
      [text |-> LineMix, page |-> 0, bbox |-> <<50, 10, 20, 60>>,
       confidence |-> 80],
      [text |-> LineSugar, page |-> 1, bbox |-> <<0, 0, 5, 5>>,
       confidence |-> 70],
      [text |-> LineFlour, page |-> 1, bbox |-> <<10, 40, 300, 15>>,
       confidence |-> 60] }

\* the ids of OCR lines, and the ids the vision service may cite: ids of
\* lines, and an int where a str is expected
LineIds == {"a", "b", "c"}

CitedIds == {EvidenceId("str", id) : id \in LineIds} \cup {EvidenceId("int", "7")}

\* the lookup tables: the lines of an asset by id
LineTables ==
    UNION { [D -> EvidenceLines] : D \in SUBSET LineIds }

InitEvidence ==
    /\ pc = "ready"
    /\ IngestIdle
    /\ ParserIdle
    /\ QuantityIdle
    /\ \E builder \in {"dict", "orm"},
          items \in SeqsUpTo(CitedIds, MaxIds),
          is_none \in BOOLEAN,
          table \in LineTables :
           /\ is_none => items = <<>>
           /\ ev_call =
                  [builder |-> builder,
                   field_path |-> SectionPath("title"),
                   extracted_text |-> LineSalt,
                   evidence_ids |->
                       IF is_none THEN NoneIds ELSE ListOfIds(items),
                   ocr_line_map |-> table,
                   asset_id |-> "asset-1"]
    /\ ev_result = ReturnedNone
    /\ DatabaseIdle

\* apps/worker/jobs.py: span = _build_span_from_evidence_dict(...)
BuildSpanFromDicts ==
    /\ pc = "ready"
    /\ ev_call.builder = "dict"
    /\ pc' = "done"
    /\ ev_result' =
           _build_span_from_evidence_dict(
               ev_call.field_path, ev_call.extracted_text,
               ev_call.evidence_ids, ev_call.ocr_line_map, ev_call.asset_id,
               "vision-api")
    /\ UNCHANGED <<ingest_vars, parser_vars, quantity_vars, ev_call,
                   database_vars>>

\* apps/api/worker/jobs.py: span = _build_span_from_evidence(...)
BuildSpanFromModels ==
    /\ pc = "ready"
    /\ ev_call.builder = "orm"
    /\ pc' = "done"
    /\ ev_result' =
           _build_span_from_evidence(
               ev_call.field_path, ev_call.extracted_text,
               ev_call.evidence_ids, ev_call.ocr_line_map, ev_call.asset_id,
               "vision-api")
    /\ UNCHANGED <<ingest_vars, parser_vars, quantity_vars, ev_call,
                   database_vars>>

NextEvidence == BuildSpanFromDicts \/ BuildSpanFromModels

SpecEvidence == InitEvidence /\ [][NextEvidence]_vars

\* an extract job before it read anything
NoExtraction ==
    [recipe_data |-> EmptyRecipe, spans |-> <<>>, field_statuses |-> <<>>]

IdleJob ==
    [state |-> "idle", recipe_id |-> NoneInt, extraction |-> NoExtraction,
     target |-> NoneInt, saved_at |-> 0]

\* the user of the asset the jobs extract, and the recipe the database
\* holds before the first job
AssetUser == [id |-> 1]

InitExtract ==
    /\ pc = "ready"
    /\ IngestIdle
    /\ ParserIdle
    /\ QuantityIdle
    /\ EvidenceIdle
    /\ db = [recipes |->
                 [r \in {0} |->
                      Recipe(AssetUser.id, NoneText, NoneInt, <<>>, <<>>,
                             <<>>, "draft")],
             source_spans |-> {}, field_statuses |-> {}]
    /\ jobs = [j \in 1..MaxJobs |-> IdleJob]
    /\ call = NoCall

\* the recipe_id arguments of a job: None, a recipe of the database, and an
\* id of no recipe
RecipeIdArguments == DOMAIN db.recipes \cup {NoneInt, MaxJobs + 1}

\* job j may start: the jobs are enqueued in the order of their numbers
MayStart(j) ==
    /\ jobs[j].state = "idle"
    /\ \A i \in 1..(j - 1) : jobs[i].state # "idle"

\* phases 1 and 2 of extract_job(asset_id, user_id, recipe_id) when the
\* vision service answers
ExtractVision(j) ==
    /\ MayStart(j)
    /\ \E recipe_id \in RecipeIdArguments, vision_result \in VisionResults :
           jobs' = [jobs EXCEPT ![j] =
                        [state |-> "extracted", recipe_id |-> recipe_id,
                         extraction |->
                             vision_extraction(vision_result, ocr_line_data,
                                               "asset-1"),
                         target |-> NoneInt, saved_at |-> 0]]
    /\ UNCHANGED <<ingest_vars, pc, parser_vars, quantity_vars, evidence_vars,
                   db, call>>

\* phases 1 and 2 when the vision service fails: the parser on the OCR lines
ExtractFallback(j) ==
    /\ MayStart(j)
    /\ \E recipe_id \in RecipeIdArguments :
           jobs' = [jobs EXCEPT ![j] =
                        [state |-> "extracted", recipe_id |-> recipe_id,
                         extraction |->
                             parser_extraction(ocr_line_data, "asset-1"),
                         target |-> NoneInt, saved_at |-> 0]]
    /\ UNCHANGED <<ingest_vars, pc, parser_vars, quantity_vars, evidence_vars,
                   db, call>>

\* phase 1 when the asset or its OCR lines are not found: the job returns
\* {"status": "failed"}
ExtractFail(j) ==
    /\ MayStart(j)
    /\ jobs' = [jobs EXCEPT ![j].state = "failed"]
    /\ UNCHANGED <<ingest_vars, pc, parser_vars, quantity_vars, evidence_vars,
                   db, call>>

\* the recipe a job writes to: the one its recipe_id names, else a new one
\* (the new uuid is the number of the job)
target_of(recipes, j, recipe_id) ==
    IF recipe_id \in DOMAIN recipes THEN recipe_id ELSE j

\* phase 3: the transaction that saves the recipe, its spans and statuses
ExtractSave(j) ==
    /\ jobs[j].state = "extracted"
    /\ db' = saved_db(db, j, target_of(db.recipes, j, jobs[j].recipe_id),
                      AssetUser.id, jobs[j].extraction)
    /\ jobs' = [jobs EXCEPT
                    ![j].state = "saved",
                    ![j].target = target_of(db.recipes, j, jobs[j].recipe_id),
                    ![j].saved_at =
                        1 + Cardinality({i \in 1..MaxJobs :
                                             jobs[i].state = "saved"})]
    /\ UNCHANGED <<ingest_vars, pc, parser_vars, quantity_vars, evidence_vars,
                   call>>

NextExtract ==
    \E j \in 1..MaxJobs :
        \/ ExtractVision(j)
        \/ ExtractFallback(j)
        \/ ExtractFail(j)
        \/ ExtractSave(j)

SpecExtract == InitExtract /\ [][NextExtract]_vars

\* 'fresh'
TextFresh == <<"f", "r", "e", "s", "h">>

\* '3 large eggs (beaten), optional'
TextEggs ==
    <<"3", " ", "l", "a", "r", "g", "e", " ", "e", "g", "g", "s", " ", "(",
      "b", "e", "a", "t", "e", "n", ")", ",", " ", "o", "p", "t", "i", "o",
      "n", "a", "l">>

\* 'flour'
NameFlour == <<"f", "l", "o", "u", "r">>

\* the ingredient dicts a stored recipe holds: those of the vision payload,
\* with a name_norm that is None, empty or set, and those of the parser,
\* which have no name_norm
StoredIngredients ==
    { [original_text |-> text, name_norm |-> name, quantity |-> NoneQty,
       unit |-> NoneText, optional |-> FALSE] :
        text \in {LineFlour, LineSalt, TextFresh, <<>>},
        name \in {NoneText, <<>>, NameFlour} }
    \cup { [quantity |-> Value(3, 1), unit |-> NoneText, optional |-> TRUE,
            original_text |-> TextEggs] }

InitNormalize ==
    /\ pc = "ready"
    /\ IngestIdle
    /\ ParserIdle
    /\ QuantityIdle
    /\ EvidenceIdle
    /\ \E ingredients \in SeqsUpTo(StoredIngredients, MaxIngredients) :
           db = [recipes |->
                     [r \in {0} |->
                          Recipe(AssetUser.id, LineSugar, NoneInt,
                                 ingredients, <<[text |-> LineMix]>>, <<>>,
                                 "draft")],
                 source_spans |-> {}, field_statuses |-> {}]
    /\ jobs = <<>>
    /\ call = NoCall

\* normalize_job(ctx, recipe_id) for a recipe of the database.  The job
\* writes the names into the dicts of the loaded list and assigns the list
\* to the attribute it came from; whether the commit then writes the column
\* is the session's change detection, so the stored list is either one.
NormalizeJob ==
    /\ pc = "ready"
    /\ pc' = "done"
    /\ \E recipe_id \in DOMAIN db.recipes, written \in BOOLEAN :
           /\ db' = [db EXCEPT
                         !.recipes[recipe_id].ingredients =
                             IF written
                             THEN normalized_ingredients(@)
                             ELSE @]
           /\ call' = [op |-> "normalize", user_id |-> 0,
                       recipe_id |-> recipe_id, returned |-> "success",
                       row |-> <<normalized_count(
                                     db.recipes[recipe_id].ingredients)>>,
                       clock |-> 0]
    /\ UNCHANGED <<ingest_vars, parser_vars, quantity_vars, evidence_vars,
                   jobs>>

\* normalize_job for an id of no recipe: {"status": "failed"}
NormalizeNotFound ==
    /\ pc = "ready"
    /\ pc' = "done"
    /\ call' = [op |-> "normalize", user_id |-> 0, recipe_id |-> 1,
                returned |-> "failed", row |-> <<>>, clock |-> 0]
    /\ UNCHANGED <<ingest_vars, parser_vars, quantity_vars, evidence_vars, db,
                   jobs>>

NextNormalize == NormalizeJob \/ NormalizeNotFound

SpecNormalize == InitNormalize /\ [][NextNormalize]_vars

\* the users of the repository
Users == {1, 2}

\* the recipes user 1 has stored before the first call
StoredRecipes ==
    { Recipe(1, title, NoneInt, ingredients, steps, <<>>, "draft") :
        title \in {LineSugar, <<" ">>},
        ingredients \in { <<>>,
                          <<[original_text |-> <<>>],
                            [original_text |-> LineSalt]>> },
        steps \in { <<[text |-> <<>>]>>, <<[text |-> LineMix]>> } }

\* the keyword arguments of the calls of update
UpdateArguments ==
    { [title |-> NoneText],
      [title |-> LineFlour],
      [steps |-> <<>>],
      [ingredients |-> <<[original_text |-> <<>>]>>],
      [status |-> "needs_review", user_id |-> 2] }

InitRepository ==
    /\ pc = "ready"
    /\ IngestIdle
    /\ ParserIdle
    /\ QuantityIdle
    /\ EvidenceIdle
    /\ \E recipe \in StoredRecipes :
           db = [recipes |-> [r \in {0} |-> recipe],
                 source_spans |-> {}, field_statuses |-> {}]
    /\ jobs = <<>>
    /\ call = NoCall

\* the ids a caller passes: those of the recipes and one of no recipe
RecipeIds == DOMAIN db.recipes \cup {Cardinality(DOMAIN db.recipes)}

\* the call and the table after an operation ended in outcome
Called(op, user_id, recipe_id, outcome) ==
    /\ call.clock < MaxCalls
    /\ call' = [op |-> op, user_id |-> user_id, recipe_id |-> recipe_id,
                returned |-> outcome.returned, row |-> outcome.row,
                clock |-> call.clock + 1]
    /\ db' = [db EXCEPT !.recipes = outcome.recipes]
    /\ UNCHANGED <<ingest_vars, pc, parser_vars, quantity_vars, evidence_vars,
                   jobs>>

\* repository.create(user_id, title=..., ingredients=..., steps=...)
Create ==
    \E user_id \in Users :
        Called("create", user_id, Cardinality(DOMAIN db.recipes),
               create(db.recipes, Cardinality(DOMAIN db.recipes), user_id,
                      LineSugar, <<[original_text |-> LineSalt]>>,
                      <<[text |-> LineMix]>>))

\* repository.get_by_id(user_id, recipe_id)
GetById ==
    \E user_id \in Users, recipe_id \in RecipeIds :
        Called("get_by_id", user_id, recipe_id,
               fetched(db.recipes, user_id, recipe_id))

\* repository.update(user_id, recipe_id, **kwargs)
Update ==
    \E user_id \in Users, recipe_id \in RecipeIds, kwargs \in UpdateArguments :
        Called("update", user_id, recipe_id,
               update(db.recipes, user_id, recipe_id, kwargs, call.clock + 1))

\* repository.delete(user_id, recipe_id)
Delete ==
    \E user_id \in Users, recipe_id \in RecipeIds :
        Called("delete", user_id, recipe_id,
               delete(db.recipes, user_id, recipe_id, call.clock + 1))

\* repository.verify(user_id, recipe_id)
Verify ==
    \E user_id \in Users, recipe_id \in RecipeIds :
        Called("verify", user_id, recipe_id,
               verify(db.recipes, user_id, recipe_id, call.clock + 1))

NextRepository == Create \/ GetById \/ Update \/ Delete \/ Verify

SpecRepository == InitRepository /\ [][NextRepository]_vars

(***************************************************************************)
(* SpecIngest: the ingest job stores the lines of the OCR service and the  *)
(* extract job reads them and falls back to the parser.                    *)
(***************************************************************************)
\* the texts the OCR service finds on the pages of the asset
OcrTexts == {LineSalt, LineMix, LineMilk}

\* the uuids uuid4() may return
Uuids == 1..MaxUuid

\* the lines the OCR service produces for texts of which those after the
\* first on_first_page are on the second page
ProducedLines(texts, on_first_page) ==
    [k \in 1..Len(texts) |->
         [OCRLineData(k, texts[k]) EXCEPT
              !.page = IF k <= on_first_page THEN 0 ELSE 1]]

InitIngest ==
    /\ pc = "ready"
    /\ ParserIdle
    /\ QuantityIdle
    /\ EvidenceIdle
    /\ DatabaseIdle
    /\ \E texts \in SeqsUpTo(OcrTexts, MaxOcrLines) :
           \E on_first_page \in 0..Len(texts) :
               ocr_result = ProducedLines(texts, on_first_page)
    /\ ocr_table = {}

\* ingest_job: one OCRLine row per line of the OCR service, each with a
\* fresh uuid4() as its id
Ingest ==
    /\ pc = "ready"
    /\ pc' = "ingested"
    /\ \E ids \in [1..Len(ocr_result) -> Uuids] :
           /\ \A j, k \in 1..Len(ocr_result) : j # k => ids[j] # ids[k]
           /\ ocr_table' = ocr_table
                             \cup ingested_rows(ocr_result, ids, asset)
    /\ UNCHANGED <<parser_vars, quantity_vars, evidence_vars, database_vars,
                   ocr_result>>

\* extract_job when the vision service fails: phase 1 reads the OCR lines
\* of the asset and the except branch of phase 2 hands them to the parser
ExtractParse ==
    /\ pc = "ingested"
    /\ read_ocr_line_data(ocr_table, asset) # <<>>
    /\ pc' = "done"
    /\ lines' = parser_lines_of(read_ocr_line_data(ocr_table, asset))
    /\ \E outcome \in
           {parse_outcome(
                parser_lines_of(read_ocr_line_data(ocr_table, asset)),
                asset)} :
           /\ raised' = outcome.raised
           /\ locals' = outcome.locals
           /\ result' = IF outcome.raised = ""
                         THEN Returned(outcome.locals)
                         ELSE NoResult
    /\ UNCHANGED <<asset, parser, result_again, quantity_vars, evidence_vars,
                   database_vars, ingest_vars>>

\* extract_job when the asset has no OCR line: {"status": "failed"}
ExtractNoLines ==
    /\ pc = "ingested"
    /\ read_ocr_line_data(ocr_table, asset) = <<>>
    /\ pc' = "failed"
    /\ UNCHANGED <<parser_vars, quantity_vars, evidence_vars, database_vars,
                   ingest_vars>>

NextIngest == Ingest \/ ExtractParse \/ ExtractNoLines

SpecIngest == InitIngest /\ [][NextIngest]_vars

(***************************************************************************)
(* SpecSpans: requests to the delete-span endpoint by two users.           *)
(***************************************************************************)
\* a span of the parser for a line of the asset
StoredSpan(id, recipe_id) ==
    SourceSpan(id, recipe_id,
               ocr_span(SpanOf(SectionPath("title"), "asset-1",
                               OCRLineData(id, LineSugar), LineSugar)))

\* user 1 owns recipe 0 with spans 1 and 2, user 2 recipe 1 with span 3
InitSpans ==
    /\ pc = "ready"
    /\ ParserIdle
    /\ QuantityIdle
    /\ EvidenceIdle
    /\ IngestIdle
    /\ db = [recipes |->
                 [r \in {0, 1} |->
                      Recipe(r + 1, LineSugar, NoneInt, <<>>, <<>>, <<>>,
                             "draft")],
             source_spans |->
                 {StoredSpan(1, 0), StoredSpan(2, 0), StoredSpan(3, 1)},
             field_statuses |-> {}]
    /\ jobs = <<>>
    /\ call = NoCall

\* DELETE /{recipe_id}/spans/{span_id}?user_id=...
DeleteSpan ==
    \E user_id \in Users \cup {NoneInt}, recipe_id \in RecipeIds,
       span_id \in 1..4 :
        /\ call.clock < MaxCalls
        /\ call' = [op |-> "delete_span", user_id |-> user_id,
                    recipe_id |-> recipe_id,
                    returned |->
                        delete_span(db, recipe_id, span_id,
                                    user_id).status_code,
                    row |-> <<span_id>>, clock |-> call.clock + 1]
        /\ db' = [db EXCEPT
                      !.source_spans =
                          delete_span(db, recipe_id, span_id,
                                      user_id).source_spans]
        /\ UNCHANGED <<pc, parser_vars, quantity_vars, evidence_vars, jobs,
                       ingest_vars>>

NextSpans == DeleteSpan

SpecSpans == InitSpans /\ [][NextSpans]_vars

(***************************************************************************)
(* Properties of parse.                                                    *)
(***************************************************************************)
\* the texts of the input lines
Texts == [k \in 1..Len(lines) |-> lines[k].text]

\* the four section-level field paths
TrackedPaths ==
    { SectionPath(f) : f \in {"title", "ingredients", "steps", "servings"} }

\* C1: parse of an empty OCR line list returns title null, no ingredients,
\* no steps, no spans, and exactly 4 FieldStatus entries (title, ingredients,
\* steps, servings), each with status 'missing'.
C1_EmptyInputAllMissing ==
    (pc = "done" /\ lines = <<>>) =>
        /\ result.recipe.title = NoneText
        /\ result.recipe.ingredients = <<>>
        /\ result.recipe.steps = <<>>
        /\ result.spans = <<>>
        /\ Len(result.field_statuses) = 4
        /\ { result.field_statuses[p].field_path :
               p \in 1..Len(result.field_statuses) } = TrackedPaths
        /\ \A p \in 1..Len(result.field_statuses) :
               result.field_statuses[p].status = "missing"

\* s is the text t without the whitespace t starts and ends with
IsTrimOf(s, t) ==
    \E i \in 1..(Len(t) + 1) : \E j \in 0..Len(t) :
        /\ s = SubSeq(t, i, j)
        /\ \A k \in 1..(i - 1) : t[k] \in Space
        /\ \A k \in (j + 1)..Len(t) : t[k] \in Space
        /\ s # <<>> => (s[1] \notin Space /\ s[Len(s)] \notin Space)

\* the line the k-th ingredient of the result was made from
IngredientLine(k) == Line(lines, locals.ingredient_results[k][4])

LeadsWithQuantityAndUnit(t) ==
    LET d == RunEnd(t, 1, Digit)
        u == RunEnd(t, d, Space)
        e == RunEnd(t, u, Alpha)
    IN  /\ d > 1
        /\ e > u
        /\ Lower(SubSeq(t, u, e - 1)) \in UNIT_TOKENS
        /\ e < Len(t)
        /\ t[e] \in Space

\* C3: an accepted ingredient line that begins with a number, a unit word
\* and a name ('400g spaghetti pasta', '2 cups flour') gives an Ingredient
\* whose quantity is that number and whose unit is the lower-cased unit word.
C3_QuantityAndUnit ==
    pc = "done" =>
        \A k \in 1..Len(result.recipe.ingredients) :
            LET t == Strip(IngredientLine(k).text)
                d == RunEnd(t, 1, Digit)
                u == RunEnd(t, d, Space)
                e == RunEnd(t, u, Alpha)
            IN  LeadsWithQuantityAndUnit(t) =>
                    /\ result.recipe.ingredients[k].quantity
                         = Value(DigitsValue(SubSeq(t, 1, d - 1)), 1)
                    /\ result.recipe.ingredients[k].unit
                         = Lower(SubSeq(t, u, e - 1))

(***************************************************************************)
(* Properties of _parse_quantity.                                          *)
(***************************************************************************)
\* s is a plain integer or decimal: digits with at most one point and an
\* optional leading minus sign
IsNumber(s) ==
    /\ \E k \in 1..Len(s) : s[k] \in Digit
    /\ \A k \in 1..Len(s) : s[k] \in Digit \cup {".", "-"}
    /\ \A k \in 2..Len(s) : s[k] # "-"
    /\ Cardinality({ k \in 1..Len(s) : s[k] = "." }) <= 1

\* s is 'a/b' for two numbers a and b
IsSimpleFraction(s) ==
    \E p \in 1..Len(s) :
        /\ s[p] = "/"
        /\ IsNumber(SubSeq(s, 1, p - 1))
        /\ IsNumber(From(s, p + 1))

\* the quotient of the numbers a and b of the simple fraction s, None when
\* b is zero
SimpleFractionValue(s) ==
    LET p == CHOOSE q \in 1..Len(s) : s[q] = "/"
        a == float(SubSeq(s, 1, p - 1))
        b == float(From(s, p + 1))
    IN  IF b.n = 0 THEN NoneQty ELSE Value(a.n * b.d, a.d * b.n)

\* the gaps of s: the places p, q such that s[p..q] is whitespace between
\* two texts without whitespace
MixedGaps(s) ==
    { pq \in (2..Len(s)) \X (2..Len(s)) :
        /\ pq[1] <= pq[2] /\ pq[2] < Len(s)
        /\ \A k \in pq[1]..pq[2] : s[k] \in Space
        /\ \A k \in 1..(pq[1] - 1) : s[k] \notin Space
        /\ \A k \in (pq[2] + 1)..Len(s) : s[k] \notin Space }

\* what the three rules give for the quantity string s
QuantityRule(s) ==
    IF IsNumber(s) THEN float(s)
    ELSE IF IsSimpleFraction(s) THEN SimpleFractionValue(s)
    ELSE IF \E pq \in MixedGaps(s) :
                /\ IsNumber(SubSeq(s, 1, pq[1] - 1))
                /\ IsSimpleFraction(From(s, pq[2] + 1))
    THEN LET pq == CHOOSE g \in MixedGaps(s) : TRUE
             w == float(SubSeq(s, 1, pq[1] - 1))
             f == SimpleFractionValue(From(s, pq[2] + 1))
         IN  IF f.kind = "none"
             THEN NoneQty
             ELSE Value(w.n * f.d + f.n * w.d, w.d * f.d)
    ELSE NoneQty

\* C4: a plain integer or decimal yields its value, a simple fraction a/b
\* yields a/b and null when b = 0, a mixed number 'w a/b' yields w + a/b and
\* null when b = 0, every other quantity string yields null; '1/2' gives
\* 1/2, '2 1/3' gives 7/3, '1/0' gives null, and no quantity string makes
\* _parse_quantity raise.
C4_QuantityRules ==
    pc = "done" =>
        /\ qty_result.kind # "raise"
        /\ qty_result = QuantityRule(Strip(qty_str))
        /\ qty_str = <<"1", "/", "2">> => qty_result = Value(1, 2)
        /\ qty_str = <<"2", " ", "1", "/", "3">> => qty_result = Value(7, 3)
        /\ qty_str = <<"1", "/", "0">> => qty_result = NoneQty

\* the mixed number '2 1/3' was parsed
C4_Witness ==
    /\ pc = "done"
    /\ qty_str = <<"2", " ", "1", "/", "3">>
    /\ qty_result = [kind |-> "value", n |-> 7, d |-> 3, exc |-> ""]

(***************************************************************************)
(* Properties of the section ranges and of the extractors.                 *)
(***************************************************************************)
\* the stripped text of line idx
StrippedText(idx) == Strip(Line(lines, idx).text)

\* the indices of the lines that are explicit headers of the section kind
HeaderIndices(kind) ==
    { idx \in 0..(Len(lines) - 1) :
        kind \in header_kinds(Line(lines, idx).text) }

\* C5: with an explicit ingredients header at index i and an explicit steps
\* header at index j > i (the first header of either kind), every Ingredient
\* comes from a line strictly between i and j and every Step from lines
\* after j; ['Ingredients', '2 cups flour', 'Instructions', '1. Mix'] gives
\* exactly the ingredient '2 cups flour' and exactly the step '1. Mix'.
C5_HeaderDelimitedRanges ==
    pc = "done" =>
        /\ (HeaderIndices("ingredients") # {} /\ HeaderIndices("steps") # {}) =>
               LET i == SetMin(HeaderIndices("ingredients"))
                   j == SetMin(HeaderIndices("steps"))
               IN  j > i =>
                       /\ \A k \in 1..Len(locals.ingredient_results) :
                              /\ i < locals.ingredient_results[k][4]
                              /\ locals.ingredient_results[k][4] < j
                       /\ \A k \in 1..Len(locals.step_results) :
                              \A p \in 1..Len(locals.step_results[k][4]) :
                                  locals.step_results[k][4][p] > j
        /\ Texts = <<HeaderIngredients, LineFlour, HeaderInstructions, LineMix>> =>
               /\ Len(result.recipe.ingredients) = 1
               /\ result.recipe.ingredients[1].original_text = LineFlour
               /\ result.recipe.steps = <<[text |-> LineMix]>>

\* both headers are present and an ingredient and a step were produced
C5_Witness ==
    /\ pc = "done"
    /\ Texts = <<HeaderIngredients, LineFlour, HeaderInstructions, LineMix>>
    /\ Len(result.recipe.ingredients) = 1
    /\ Len(result.recipe.steps) = 1
    /\ Len(locals.ingredient_results) = 1
    /\ Len(locals.step_results) = 1

\* line idx passes the filters of the ingredient loop that stay in force in
\* the relaxed pass: not blank, not a header, not noise, no 'for ...' or
\* '...:' sub-heading, no time annotation
PassesBaseFilters(idx) ==
    LET text == StrippedText(idx)
        lower_text == Lower(text)
    IN  /\ text # <<>>
        /\ ~_looks_like_header(text)
        /\ ~_is_noise_line(text)
        /\ ~StartsWith(<<"f", "o", "r", " ">>, lower_text)
        /\ text[Len(text)] # ":"
        /\ ~(/\ ContainsAny(TIME_INDICATORS, lower_text)
             /\ \E k \in 1..Len(lower_text) : lower_text[k] \in Digit)

\* the number of entries of the sequence s whose field path names an item
\* of the list field
ItemCount(s, field) ==
    Cardinality({ p \in 1..Len(s) :
                    s[p].field_path.field = field
                    /\ s[p].field_path.index # NoneInt })

\* C6: when the strict ingredient pass over a resolved range yields nothing,
\* parse runs a second pass over the same range without the ingredient-like
\* filter and uses its result, with one span per ingredient and nothing
\* duplicated; 'Ingredients' followed by 'salt and pepper to taste' gives
\* exactly one Ingredient, 'salt and pepper to taste', with one span.
C6_RelaxedRetry ==
    pc = "done" =>
        /\ (locals.strict_results = <<>> /\ locals.ingredient_range # <<>>) =>
               /\ locals.retried
               /\ { locals.ingredient_results[k][4] :
                      k \in 1..Len(locals.ingredient_results) }
                    = { idx \in locals.ingredient_range[1]
                                  ..(locals.ingredient_range[2] - 1) :
                          PassesBaseFilters(idx) }
               /\ \A k \in 1..(Len(locals.ingredient_results) - 1) :
                      locals.ingredient_results[k][4]
                        < locals.ingredient_results[k + 1][4]
        /\ Len(result.recipe.ingredients) = Len(locals.ingredient_results)
        /\ ItemCount(result.spans, "ingredients") = Len(result.recipe.ingredients)
        /\ ItemCount(result.field_statuses, "ingredients")
             = Len(result.recipe.ingredients)
        /\ \A k \in 1..Len(result.recipe.ingredients) :
               \E p \in 1..Len(result.spans) :
                   /\ result.spans[p].field_path
                        = FieldPath("ingredients", k - 1, "original_text")
                   /\ result.spans[p].extracted_text
                        = result.recipe.ingredients[k].original_text
        /\ Texts = <<HeaderIngredients, LineSalt>> =>
               /\ locals.strict_results = <<>>
               /\ Len(result.recipe.ingredients) = 1
               /\ result.recipe.ingredients[1].original_text = LineSalt
               /\ ItemCount(result.spans, "ingredients") = 1

\* the strict pass found nothing and the relaxed pass found the ingredient
C6_Witness ==
    /\ pc = "done"
    /\ Texts = <<HeaderIngredients, LineSalt>>
    /\ locals.strict_results = <<>>
    /\ locals.retried
    /\ Len(result.recipe.ingredients) = 1

\* the texts of ts joined by single spaces
RECURSIVE JoinSpace(_)
JoinSpace(ts) ==
    IF Len(ts) = 1
    THEN ts[1]
    ELSE JoinSpace(SubSeq(ts, 1, Len(ts) - 1)) \o <<" ">> \o ts[Len(ts)]

\* line idx is not blank, no header and no noise
IsBodyLine(idx) ==
    /\ StrippedText(idx) # <<>>
    /\ ~_looks_like_header(StrippedText(idx))
    /\ ~_is_noise_line(StrippedText(idx))

\* line idx is a header the step loop sees
IsHeaderLine(idx) ==
    StrippedText(idx) # <<>> /\ _looks_like_header(StrippedText(idx))

\* the body lines from the steps start on that pass the step-start test
StepStarts ==
    IF locals.steps_start = NoneInt
    THEN {}
    ELSE { idx \in locals.steps_start..(Len(lines) - 1) :
             IsBodyLine(idx) /\ _is_step_candidate(StrippedText(idx)) }

\* the step loop sees line idx: no header lies between the first opened
\* step and idx
Scanned(starts, idx) ==
    /\ locals.steps_start # NoneInt
    /\ idx >= locals.steps_start
    /\ starts # {} => \A h \in SetMin(starts)..idx : ~IsHeaderLine(h)

\* C7: a body line that fails the step-start test and follows an opened step
\* creates no Step: its text is appended, after a single space, to the text
\* of the preceding Step and to the extracted_text of that Step's Span,
\* whose bbox, page and confidence stay those of the step's first line;
\* ['1. Boil water', 'and add pasta.'] gives exactly one Step,
\* '1. Boil water and add pasta.'.
C7_StepContinuation ==
    pc = "done" =>
        LET starts == StepStarts
        IN
        /\ Len(result.recipe.steps) = Len(locals.step_results)
        /\ Len(result.recipe.steps)
             = Cardinality({ idx \in starts : Scanned(starts, idx) })
        /\ \A k \in 1..Len(result.recipe.steps) :
               LET from == locals.step_results[k][4]
                   joined == JoinSpace([p \in 1..Len(from) |-> StrippedText(from[p])])
                   first == Line(lines, from[1])
               IN  /\ from[1] \in starts
                   /\ \A p \in 2..Len(from) : from[p] \notin starts
                   /\ result.recipe.steps[k].text = joined
                   /\ \E p \in 1..Len(result.spans) :
                          result.spans[p]
                            = [field_path |-> FieldPath("steps", k - 1, "text"),
                               asset_id |-> asset,
                               page |-> first.page,
                               bbox |-> first.bbox,
                               ocr_confidence |-> first.confidence,
                               extracted_text |-> joined]
        /\ ItemCount(result.spans, "steps") = Len(result.recipe.steps)
        /\ \A idx \in 0..(Len(lines) - 1) :
               (/\ Scanned(starts, idx)
                /\ IsBodyLine(idx)
                /\ ~_is_step_candidate(StrippedText(idx))
                /\ \E s \in starts : s < idx) =>
                   \E k \in 1..Len(locals.step_results) :
                       LET from == locals.step_results[k][4]
                       IN  /\ from[1] = SetMax({ s \in starts : s < idx })
                           /\ \E p \in 2..Len(from) : from[p] = idx
        /\ Texts = <<LineBoil, LinePasta>> =>
               result.recipe.steps
                 = << [text |-> <<"1", ".", " ", "B", "o", "i", "l", " ", "w",
                                  "a", "t", "e", "r", " ", "a", "n", "d", " ",
                                  "a", "d", "d", " ", "p", "a", "s", "t", "a",
                                  ".">>] >>

\* a continuation line was merged into the step opened before it
C7_Witness ==
    /\ pc = "done"
    /\ Texts = <<LineBoil, LinePasta>>
    /\ Len(result.recipe.steps) = 1
    /\ locals.step_results[1][4] = <<0, 1>>
    /\ result.recipe.steps[1].text = LineBoil \o <<" ">> \o LinePasta

\* the indices of the lines that contain a servings keyword and match the
\* servings pattern
ServingsLines ==
    { idx \in 0..(Len(lines) - 1) :
        LET text == Lower(Line(lines, idx).text)
        IN  /\ ContainsAny(SERVINGS_INDICATORS, text)
            /\ servings_pattern(text) # NoneInt }

\* C8: servings is the integer of the first line, in input order, that
\* contains a servings keyword and matches the servings pattern, whatever
\* lines follow, and the servings Span's extracted_text is the text of that
\* line (stripped, as every extractor reads it); 'Serves 4 people' gives 4.
C8_FirstServingsWins ==
    pc = "done" =>
        LET matching == ServingsLines
        IN
        /\ matching = {} =>
               /\ result.recipe.servings = NoneInt
               /\ \A p \in 1..Len(result.spans) :
                      result.spans[p].field_path.field # "servings"
        /\ matching # {} =>
               LET first == Line(lines, SetMin(matching))
               IN  /\ result.recipe.servings
                        = servings_pattern(Lower(first.text))
                   /\ first.text = LineServes => result.recipe.servings = 4
                   /\ first.text = LineYield => result.recipe.servings = 6
                   /\ Cardinality({ p \in 1..Len(result.spans) :
                                      result.spans[p].field_path.field
                                        = "servings" }) = 1
                   /\ \E p \in 1..Len(result.spans) :
                          result.spans[p]
                            = [field_path |-> SectionPath("servings"),
                               asset_id |-> asset,
                               page |-> first.page,
                               bbox |-> first.bbox,
                               ocr_confidence |-> first.confidence,
                               extracted_text |-> Strip(first.text)]

\* two lines give different servings and the first one was taken
C8_Witness ==
    /\ pc = "done"
    /\ Len(lines) >= 2
    /\ lines[1].text = LineServes
    /\ lines[2].text = LineYield
    /\ result.recipe.servings = 4

\* C9: every parse result (here: of a non-empty input, the empty input being
\* the case of C1) holds exactly one FieldStatus for each of title,
\* ingredients, steps and servings, at section level, and no two of its
\* FieldStatus entries share a field_path.
C9_OneStatusPerField ==
    (pc = "done" /\ lines # <<>>) =>
        /\ Len(result.field_statuses) = 4
        /\ { result.field_statuses[p].field_path :
               p \in 1..Len(result.field_statuses) } = TrackedPaths

\* the field was not found
FieldMissing(field) ==
    CASE field = "title" -> result.recipe.title = NoneText
      [] field = "ingredients" -> result.recipe.ingredients = <<>>
      [] field = "steps" -> result.recipe.steps = <<>>
      [] field = "servings" -> result.recipe.servings = NoneInt

\* what each extractor finds when it is run on the input by itself, given
\* the detected sections and the ingredient range
AloneTitle(sections) ==
    LET r == _extract_title(lines, sections.title_indices, asset)
    IN  IF r = <<>> THEN NoneText ELSE r[1]

AloneRange(sections) ==
    _find_ingredient_range(lines, sections.ingredients_indices,
                           sections.steps_indices)

AloneIngredients(range) ==
    LET strict == _extract_ingredients(lines, range, asset, FALSE)
    IN  Column(IF strict # <<>>
               THEN strict
               ELSE _extract_ingredients(lines, range, asset, TRUE), 1)

AloneSteps(sections, range) ==
    Column(_extract_steps(lines,
                          _find_steps_start(lines, sections.steps_indices, range),
                          asset), 1)

AloneServings ==
    LET r == _extract_servings(lines, asset)
    IN  IF r = <<>> THEN NoneInt ELSE r[1]

\* C10: for a non-empty input, a field whose extractor finds nothing has a
\* FieldStatus with its path, status 'missing' and a note, and no Span, and
\* the other fields hold what their extractors find: no extractor's failure
\* suppresses the result of another.
C10_MissingIsIndependent ==
    (pc = "done" /\ lines # <<>>) =>
        /\ \A field \in {"title", "ingredients", "steps", "servings"} :
               FieldMissing(field) =>
                   /\ Cardinality({ p \in 1..Len(result.field_statuses) :
                                      result.field_statuses[p].field_path.field
                                        = field }) = 1
                   /\ \E p \in 1..Len(result.field_statuses) :
                          /\ result.field_statuses[p].field_path
                               = SectionPath(field)
                          /\ result.field_statuses[p].status = "missing"
                          /\ result.field_statuses[p].notes # ""
                   /\ \A p \in 1..Len(result.spans) :
                          result.spans[p].field_path.field # field
        /\ LET sections == _detect_sections(lines)
               range == AloneRange(sections)
           IN  /\ result.recipe.title = AloneTitle(sections)
               /\ result.recipe.ingredients = AloneIngredients(range)
               /\ result.recipe.steps = AloneSteps(sections, range)
               /\ result.recipe.servings = AloneServings

\* the title was not found and the ingredients were
C10_Witness ==
    /\ pc = "done"
    /\ lines # <<>>
    /\ result.recipe.title = NoneText
    /\ result.recipe.ingredients # <<>>
    /\ \E p \in 1..Len(result.field_statuses) :
           result.field_statuses[p]
             = Missing(SectionPath("title"), "Could not detect title in OCR text")

(***************************************************************************)
(* Properties of the evidence builder.                                     *)
(***************************************************************************)
\* the ids the call cites, as strings, and the positions of those that
\* resolve in the lookup table
CitedStrings ==
    [k \in 1..Len(ev_call.evidence_ids.items) |->
         ev_call.evidence_ids.items[k].repr]

Resolving == { k \in 1..Len(CitedStrings) :
                 CitedStrings[k] \in DOMAIN ev_call.ocr_line_map }

ResolvedBoxes ==
    { ev_call.ocr_line_map[CitedStrings[k]].bbox : k \in Resolving }

\* box a contains box b
BoxContains(a, b) ==
    /\ a[1] <= b[1]
    /\ a[2] <= b[2]
    /\ b[1] + b[3] <= a[1] + a[3]
    /\ b[2] + b[4] <= a[2] + a[4]

\* C11: the bbox of a Span built from cited OCR line ids is
\* [min x, min y, max(x+w) - min x, max(y+h) - min y] over exactly the
\* cited lines that resolve in the lookup table, and so contains the box of
\* every resolved cited line.
C11_UnionOfCitedBoxes ==
    (pc = "done" /\ ev_result.span # <<>>) =>
        LET boxes == ResolvedBoxes
            bbox == ev_result.span[1].bbox
            x_min == CHOOSE x \in {b[1] : b \in boxes} :
                         \A b \in boxes : x <= b[1]
            y_min == CHOOSE y \in {b[2] : b \in boxes} :
                         \A b \in boxes : y <= b[2]
            x_max == CHOOSE x \in {b[1] + b[3] : b \in boxes} :
                         \A b \in boxes : x >= b[1] + b[3]
            y_max == CHOOSE y \in {b[2] + b[4] : b \in boxes} :
                         \A b \in boxes : y >= b[2] + b[4]
        IN  /\ boxes # {}
            /\ bbox = <<x_min, y_min, x_max - x_min, y_max - y_min>>
            /\ \A b \in boxes : BoxContains(bbox, b)

\* a span built from two lines whose boxes lie apart, cited next to an id
\* that does not resolve: its box is the box of neither line
C11_Witness ==
    /\ pc = "done"
    /\ ev_result.span # <<>>
    /\ Cardinality(ResolvedBoxes) >= 2
    /\ Resolving # 1..Len(CitedStrings)
    /\ ev_result.span[1].bbox \notin ResolvedBoxes

\* C12: the builder returns None exactly when none of the cited ids
\* resolves to a known line (an empty or missing list included) and never
\* raises on an unknown id; when an id resolves it returns a Span whose page
\* is the page of the first resolving cited line and whose source_method is
\* 'vision-api'.
C12_NoneIffNothingResolves ==
    pc = "done" =>
        /\ ev_result.raised = ""
        /\ ev_result.is_none <=> Resolving = {}
        /\ Resolving # {} =>
               /\ ev_result.span # <<>>
               /\ LET first == CHOOSE k \in Resolving :
                                   \A j \in Resolving : k <= j
                  IN  ev_result.span[1].page =
                          ev_call.ocr_line_map[CitedStrings[first]].page
               /\ ev_result.span[1].source_method = "vision-api"

\* a span whose first cited id is unknown and whose resolving lines are on
\* different pages
C12_Witness ==
    /\ pc = "done"
    /\ ev_result.span # <<>>
    /\ 1 \notin Resolving
    /\ \E j, k \in Resolving :
           /\ j < k
           /\ ev_call.ocr_line_map[CitedStrings[j]].page
                  # ev_call.ocr_line_map[CitedStrings[k]].page

\* the jobs that saved to recipe r, and the one of them that committed last
SavedTo(r) ==
    { j \in DOMAIN jobs : jobs[j].state = "saved" /\ jobs[j].target = r }

LastSaved(r) ==
    CHOOSE j \in SavedTo(r) :
        \A i \in SavedTo(r) : jobs[i].saved_at <= jobs[j].saved_at

\* the rows of a table that belong to recipe r
RowsOf(rows, r) == { row \in rows : row.recipe_id = r }

\* C13: after any sequence of successful extract jobs, the SourceSpan and
\* FieldStatus rows stored for a recipe are exactly the rows of the job that
\* saved to it last: the rows of earlier jobs are gone, and no recipe holds
\* rows of two jobs.
C13_RowsOfTheLastJob ==
    /\ \A row \in db.source_spans \cup db.field_statuses :
           row.recipe_id \in DOMAIN db.recipes
    /\ \A r \in DOMAIN db.recipes :
           IF SavedTo(r) = {}
           THEN RowsOf(db.source_spans, r) = {}
                /\ RowsOf(db.field_statuses, r) = {}
           ELSE /\ RowsOf(db.source_spans, r)
                     = { SourceSpan(<<LastSaved(r), "span", k>>, r,
                                    jobs[LastSaved(r)].extraction.spans[k]) :
                           k \in 1..Len(jobs[LastSaved(r)].extraction.spans) }
                /\ RowsOf(db.field_statuses, r)
                     = { FieldStatus(
                             <<LastSaved(r), "status", k>>, r,
                             jobs[LastSaved(r)].extraction.field_statuses[k]) :
                           k \in 1..Len(jobs[LastSaved(r)].extraction
                                            .field_statuses) }
                /\ \A row \in RowsOf(db.source_spans, r)
                               \cup RowsOf(db.field_statuses, r) :
                       row.id[1] = LastSaved(r)

\* two jobs saved to one recipe, the earlier one with spans and statuses of
\* its own, and the rows of the later one are stored
C13_Witness ==
    \E r \in DOMAIN db.recipes :
        \E i \in SavedTo(r) :
            /\ i # LastSaved(r)
            /\ jobs[i].extraction.spans # <<>>
            /\ jobs[i].extraction.spans # jobs[LastSaved(r)].extraction.spans
            /\ jobs[i].extraction.field_statuses
                 # jobs[LastSaved(r)].extraction.field_statuses
            /\ RowsOf(db.source_spans, r) # {}

\* C16: the normalize job only adds name_norm to the ingredients that have
\* none (None or empty): the number and the order of the ingredients, each
\* ingredient's original_text, quantity, unit and optional and every
\* name_norm that was set are the same after the job as before, as is the
\* rest of the recipe.
C16_OnlyAddsNameNorm ==
    [][ (pc = "ready" /\ pc' = "done") =>
            /\ DOMAIN db'.recipes = DOMAIN db.recipes
            /\ \A r \in DOMAIN db.recipes :
                   /\ [db'.recipes[r] EXCEPT !.ingredients = <<>>]
                        = [db.recipes[r] EXCEPT !.ingredients = <<>>]
                   /\ Len(db'.recipes[r].ingredients)
                        = Len(db.recipes[r].ingredients)
                   /\ \A k \in 1..Len(db.recipes[r].ingredients) :
                          /\ DOMAIN db'.recipes[r].ingredients[k] \ {"name_norm"}
                               = DOMAIN db.recipes[r].ingredients[k] \ {"name_norm"}
                          /\ \A key \in DOMAIN db.recipes[r].ingredients[k]
                                          \ {"name_norm"} :
                                 db'.recipes[r].ingredients[k][key]
                                   = db.recipes[r].ingredients[k][key]
                          /\ Get(db.recipes[r].ingredients[k], "name_norm")
                               \notin {NoneText, <<>>} =>
                                 db'.recipes[r].ingredients[k]
                                   = db.recipes[r].ingredients[k]
      ]_vars

\* the job ran on a recipe with an ingredient without a name and one with a
\* name, and the stored recipe has the name it gave the first
C16_Witness ==
    /\ pc = "done"
    /\ call.op = "normalize"
    /\ call.returned = "success"
    /\ call.row = <<1>>
    /\ Len(db.recipes[0].ingredients) = 2
    /\ db.recipes[0].ingredients[1].original_text = LineFlour
    /\ db.recipes[0].ingredients[1].name_norm = NameFlour
    /\ db.recipes[0].ingredients[2].original_text = LineSalt
    /\ db.recipes[0].ingredients[2].name_norm
         = <<"a", "n", "d", " ", "p", "e", "p", "p", "e", "r">>

\* a step of the repository that is a call of one of the operations
IsCall(ops) == call'.clock = call.clock + 1 /\ call'.op \in ops

\* the recipe the call names belongs to the caller, has a non-blank title,
\* an ingredient with a non-empty original_text and a step with a non-empty
\* text
MayBeVerified(recipes, user_id, recipe_id) ==
    /\ recipe_id \in DOMAIN recipes
    /\ recipes[recipe_id].user_id = user_id
    /\ recipes[recipe_id].title # NoneText
    /\ \E c \in 1..Len(recipes[recipe_id].title) :
           recipes[recipe_id].title[c] \notin Space
    /\ \E k \in 1..Len(recipes[recipe_id].ingredients) :
           /\ "original_text" \in DOMAIN recipes[recipe_id].ingredients[k]
           /\ recipes[recipe_id].ingredients[k].original_text
                \notin {NoneText, <<>>}
    /\ \E k \in 1..Len(recipes[recipe_id].steps) :
           /\ "text" \in DOMAIN recipes[recipe_id].steps[k]
           /\ recipes[recipe_id].steps[k].text \notin {NoneText, <<>>}

\* C17: verify sets the status of a recipe to "verified" only if the recipe
\* belongs to the caller and has a non-blank title, an ingredient with a
\* non-empty original_text and a step with a non-empty text; in every other
\* case it returns None and leaves the recipes as they were.
C17_VerifyValidates ==
    [][ IsCall({"verify"}) =>
            IF MayBeVerified(db.recipes, call'.user_id, call'.recipe_id)
            THEN /\ call'.returned = "Recipe"
                 /\ db'.recipes[call'.recipe_id].status = "verified"
            ELSE /\ call'.returned = "None"
                 /\ call'.row = <<>>
                 /\ db'.recipes = db.recipes
      ]_vars

\* verify was refused for a recipe of the caller that has a title and an
\* ingredient but no step with a text, and the recipe is not verified
C17_Witness ==
    /\ call.op = "verify"
    /\ call.returned = "None"
    /\ call.recipe_id \in DOMAIN db.recipes
    /\ db.recipes[call.recipe_id].user_id = call.user_id
    /\ db.recipes[call.recipe_id].title = LineSugar
    /\ db.recipes[call.recipe_id].ingredients # <<>>
    /\ db.recipes[call.recipe_id].status = "draft"

\* C18: get_by_id, update, delete and verify called by a user for a recipe
\* of another user return None or False and leave the recipes as they were,
\* after any sequence of calls of the repository.
C18_UserIsolation ==
    [][ (/\ IsCall({"get_by_id", "update", "delete", "verify"})
         /\ call'.recipe_id \in DOMAIN db.recipes
         /\ db.recipes[call'.recipe_id].user_id # call'.user_id) =>
            /\ call'.returned \in {"None", "False"}
            /\ call'.row = <<>>
            /\ db'.recipes = db.recipes
      ]_vars

\* after two other calls, an update by a user of a recipe that another user
\* owns, which could be verified, returned None
C18_Witness ==
    /\ call.clock = MaxCalls
    /\ call.op = "update"
    /\ call.returned = "None"
    /\ call.recipe_id \in DOMAIN db.recipes
    /\ db.recipes[call.recipe_id].user_id # call.user_id
    /\ db.recipes[call.recipe_id].status = "verified"
    /\ db.recipes[call.recipe_id].deleted_at = NoneInt

TitleHeaders == HeaderIndices("title")

\* the lines among the first 5 with more than 3 characters and at least 2
\* words
Substantive ==
    { i \in 0..(Len(lines) - 1) :
        /\ i < 5
        /\ Len(Strip(Line(lines, i).text)) > 3
        /\ Len(Split(Line(lines, i).text)) >= 2 }

\* the line the title is to be taken from: the line after the first title
\* header, else the first substantive line, else the first line
TitleLine ==
    IF TitleHeaders # {}
    THEN IF SetMin(TitleHeaders) + 1 < Len(lines)
         THEN SetMin(TitleHeaders) + 1
         ELSE SetMin(TitleHeaders)
    ELSE IF Substantive # {} THEN SetMin(Substantive) ELSE 0

\* C19: without an explicit title header the title is the text of the first
\* of the first 5 lines that has more than 3 characters and at least 2
\* words (the first line when there is none), and with a title header it is
\* the line after the header; stated for a title line that is short and
\* neither empty nor noise.
C19_TitleRule ==
    (/\ pc = "done"
     /\ lines # <<>>
     /\ Strip(Line(lines, TitleLine).text) # <<>>
     /\ ~_is_noise_line(Strip(Line(lines, TitleLine).text))
     /\ Len(Strip(Line(lines, TitleLine).text)) <= 120
     /\ ~Contains(<<".", " ">>, Strip(Line(lines, TitleLine).text)))
        => result.recipe.title = Strip(Line(lines, TitleLine).text)

\* C20: in the relaxed pass a line that passes the step-start test is still
\* rejected: no ingredient of a retried parse comes from a step candidate.
C20_RelaxedKeepsStepFilter ==
    (pc = "done" /\ locals.retried) =>
        \A k \in 1..Len(locals.ingredient_results) :
            ~_is_step_candidate(
                 Strip(Line(lines, locals.ingredient_results[k][4]).text))

\* C26: in the vision path of the extract job every stored Span with
\* field_path 'ingredients[k].original_text' or 'steps[k].text' names an
\* index k of the stored recipe's list and carries the text of that item,
\* also when the vision result has items with an empty text.
C26_VisionSpansIndexItems ==
    \A row \in db.source_spans :
        (/\ row.source_method = "vision-api"
         /\ row.field_path.field \in {"ingredients", "steps"}) =>
            /\ row.field_path.index
                 < Len(db.recipes[row.recipe_id][row.field_path.field])
            /\ Get(db.recipes[row.recipe_id][row.field_path.field]
                       [row.field_path.index + 1],
                   row.field_path.attr) = row.extracted_text

\* C27: every id in the evidence.ocr_line_ids of a Span the builder returns
\* resolves to a known OCR line of the asset: the recorded ids are the
\* lines the bbox and the confidence were computed from.
C27_StoredIdsResolve ==
    (pc = "done" /\ ev_result.span # <<>>) =>
        \A k \in 1..Len(ev_result.span[1].evidence.ocr_line_ids) :
            ev_result.span[1].evidence.ocr_line_ids[k]
                \in DOMAIN ev_call.ocr_line_map

\* C28: after any sequence of repository calls a recipe whose status is
\* 'verified' has a non-blank title, an ingredient with original_text and a
\* step with text.
C28_VerifiedIsValid ==
    \A r \in DOMAIN db.recipes :
        db.recipes[r].status = "verified" => verifiable(db.recipes[r])

\* the positions of the spans of the result with a field path
SpansAt(path) ==
    { p \in 1..Len(result.spans) : result.spans[p].field_path = path }

\* C23: in a parse result spans and extracted values correspond one to one:
\* every ingredient i has exactly one Span 'ingredients[i].original_text'
\* with its original_text, every step i exactly one Span 'steps[i].text'
\* with its text, there is one 'title' Span iff the title is non-null, one
\* 'servings' Span iff servings is non-null, and there is no other Span.
C23_OneSpanPerValue ==
    pc = "done" =>
        /\ \A i \in 1..Len(result.recipe.ingredients) :
               /\ Cardinality(
                      SpansAt(FieldPath("ingredients", i - 1,
                                        "original_text"))) = 1
               /\ \A p \in SpansAt(FieldPath("ingredients", i - 1,
                                             "original_text")) :
                      result.spans[p].extracted_text
                        = result.recipe.ingredients[i].original_text
        /\ \A i \in 1..Len(result.recipe.steps) :
               /\ Cardinality(SpansAt(FieldPath("steps", i - 1, "text"))) = 1
               /\ \A p \in SpansAt(FieldPath("steps", i - 1, "text")) :
                      result.spans[p].extracted_text
                        = result.recipe.steps[i].text
        /\ Cardinality(SpansAt(SectionPath("title")))
             = IF result.recipe.title # NoneText THEN 1 ELSE 0
        /\ Cardinality(SpansAt(SectionPath("servings")))
             = IF result.recipe.servings # NoneInt THEN 1 ELSE 0
        /\ Len(result.spans)
             = Len(result.recipe.ingredients) + Len(result.recipe.steps)
               + Cardinality(SpansAt(SectionPath("title")))
               + Cardinality(SpansAt(SectionPath("servings")))

\* a result with a title, an ingredient, a step and servings
C23_Witness ==
    /\ pc = "done"
    /\ result.recipe.title # NoneText
    /\ result.recipe.servings # NoneInt
    /\ result.recipe.ingredients # <<>>
    /\ result.recipe.steps # <<>>
    /\ Len(result.spans) >= 4

\* the lines of the input that became ingredients, and those that open or
\* continue a step
IngredientLines ==
    { locals.ingredient_results[k][4] :
        k \in 1..Len(locals.ingredient_results) }

StepLines ==
    UNION { { locals.step_results[k][4][j] :
                j \in 1..Len(locals.step_results[k][4]) } :
            k \in 1..Len(locals.step_results) }

\* C25: no OCR line contributes both to an Ingredient and to a Step of one
\* parse result, and every step line lies at or after the end of the
\* ingredient range.
C25_IngredientAndStepLinesApart ==
    pc = "done" =>
        /\ IngredientLines \cap StepLines = {}
        /\ locals.ingredient_range # <<>> =>
               \A idx \in StepLines : idx >= locals.ingredient_range[2]

\* the lower-cased text of line idx as the header test compares it
HeaderText(idx) == RStripColon(Strip(Lower(StrippedText(idx))))

\* C21: a line with more than 3 whitespace-separated tokens, or more than
\* 50 characters, that is not a whole-line section keyword is never
\* classified as a header, whatever keyword occurs inside it.
C21_HeaderWithinTokenBudget ==
    pc = "done" =>
        \A idx \in 0..(Len(lines) - 1) :
            (/\ \/ Len(ReSplitWs(HeaderText(idx))) > 3
                \/ Len(HeaderText(idx)) > 50
             /\ HeaderText(idx)
                  \notin INGREDIENT_INDICATORS \cup STEPS_INDICATORS
                           \cup TITLE_INDICATORS)
                => ~_looks_like_header(StrippedText(idx))

\* C22: the ingredient-like flag and the step-start flag of a line exclude
\* each other: a line that passes the step-start test fails the
\* ingredient-like test.
C22_FlagsExclusive ==
    pc = "done" =>
        \A idx \in 0..(Len(lines) - 1) :
            _is_step_candidate(StrippedText(idx))
                => ~_looks_like_ingredient(StrippedText(idx))

\* the lines the heuristic range may start at
HeuristicStarts ==
    { idx \in 0..(Len(lines) - 1) :
        /\ StrippedText(idx) # <<>>
        /\ ~_looks_like_header(StrippedText(idx))
        /\ ~_is_noise_line(StrippedText(idx))
        /\ _looks_like_ingredient(StrippedText(idx)) }

\* C24: without an ingredients header the ingredient range starts at the
\* first non-blank, non-header, non-noise line that is ingredient-like, and
\* the range contains that line.
C24_HeuristicRangeHoldsStart ==
    (/\ pc = "done"
     /\ locals.sections.ingredients_indices = <<>>
     /\ HeuristicStarts # {}) =>
        /\ locals.ingredient_range # <<>>
        /\ locals.ingredient_range[1] = SetMin(HeuristicStarts)
        /\ locals.ingredient_range[1] < locals.ingredient_range[2]

\* C29: a request of the delete-span endpoint deletes a SourceSpan only if
\* the span belongs to the recipe the request names and that recipe belongs
\* to the user of the request: no request deletes a span of a recipe of
\* another user.
C29_DeletesOnlyOwnSpans ==
    [][ (call'.clock = call.clock + 1 /\ call'.op = "delete_span") =>
            \A row \in db.source_spans \ db'.source_spans :
                /\ row.recipe_id = call'.recipe_id
                /\ db.recipes[row.recipe_id].user_id = call'.user_id
      ]_vars

\* the lines of a list that are on a page
OnPage(ocr_lines, page) ==
    SelectSeq(ocr_lines, LAMBDA line : line.page = page)

\* C30: the OCR lines the extract job hands to the parser when it falls
\* back are, within each page, in the order in which the OCR service
\* produced them and the ingest job stored them, whatever ids the lines
\* were given.
C30_ParserLinesInProducedOrder ==
    (pc = "done" /\ ocr_table # {}) =>
        \A page \in {0, 1} : OnPage(lines, page) = OnPage(ocr_result, page)

=============================================================================
